---- MODULE Spec2Model ----
(***************************************************************************)
(* A model of VAST's index and archive core:                               *)
(*   - the query scheduler (INDEX actor) and its workers (collectors),     *)
(*     libvast/src/system/index.cpp;                                       *)
(*   - the meta index, libvast/vast/system/reader_command.hpp:1028-1161;   *)
(*   - the value index wrapper, libvast/src/format/bgpdump.cpp:232-268;    *)
(*   - the segment, its writer and its reader, src/vast/segment.cc.        *)
(* Each subsystem has its own specification (Spec, SpecMeta, SpecVI,       *)
(* SpecSeg) over its own variables; the variables of the other subsystems  *)
(* are held constant.                                                      *)
(***************************************************************************)
EXTENDS Integers, Sequences, FiniteSets, Bags, TLC

\* ------------------------------------------------------------------------
\* Bounds of the model
\* ------------------------------------------------------------------------
NumWorkers == 2
NumPartitions == 2
NumClients == 1
MaxTaste == 2
MaxCache == 1
MaxIndexers == 2
MaxLookups == 2
MaxContinues == 2
MaxNum == 2
NumIds == 1

Workers == 1..NumWorkers
Partitions == 1..NumPartitions
Clients == 1..NumClients
Ids == 1..NumIds
\* uuid::nil(); fresh uuids are 1, 2, ...
Nil == 0
\* A sender that is no actor (current_sender() == nullptr).
Anon == 0

\* ------------------------------------------------------------------------
\* General helpers
\* ------------------------------------------------------------------------
Min(a, b) == IF a <= b THEN a ELSE b

MinOf(S) == CHOOSE x \in S : \A y \in S : x <= y

Range(s) == {s[i] : i \in 1..Len(s)}

Front(s) == SubSeq(s, 1, Len(s) - 1)

Last(s) == s[Len(s)]

RECURSIVE SortedSeq(_)
SortedSeq(S) ==
  IF S = {} THEN <<>>
  ELSE LET m == MinOf(S) IN <<m>> \o SortedSeq(S \ {m})

\* All arrangements of the elements of a duplicate-free sequence.
Arrangements(s) ==
  {t \in [1..Len(s) -> Range(s)] : Range(t) = Range(s)}

Restrict(f, D) == [x \in D |-> f[x]]

\* ------------------------------------------------------------------------
\* State of the query scheduler
\* ------------------------------------------------------------------------
VARIABLES
  taste_partitions, \* index_state::taste_partitions
  in_mem_partitions, \* capacity of index_state::lru_partitions
  lru_partitions,   \* the partition cache, least recently used first
  idle_workers,     \* index_state::idle_workers
  has_worker,       \* TRUE iff the has_worker behavior is active
  pending,          \* index_state::pending: query id -> remaining candidates
  next_qid,         \* the next uuid::random()
  mailbox,          \* mailbox of the INDEX actor
  inbox,            \* mailbox of each collector
  open_requests,    \* collector_state::open_requests of each collector
  requests,         \* indexer requests of each collector awaiting a reply
  reply,            \* the last reply the INDEX actor sent to a lookup
  job,              \* per collector: the last query dispatched to it
  answered,         \* per collector: sub results returned for its query
  sent,             \* per collector: results sent to the client for its query
  cancelled,        \* history: the queries dropped with continue(id, 0)
  lookups_sent,     \* number of lookup messages sent so far
  continues_sent,   \* number of continue messages sent so far
  dispatched        \* history: per query id the candidates of the query
                    \* and how often each was sent to a worker

schedVars ==
  <<taste_partitions, in_mem_partitions, lru_partitions, idle_workers,
    has_worker, pending, next_qid, mailbox, inbox, open_requests, requests,
    reply, job, answered, sent, cancelled, lookups_sent,
    continues_sent, dispatched>>

\* ------------------------------------------------------------------------
\* State of the meta index
\* ------------------------------------------------------------------------
VARIABLES
  partition_synopses,  \* meta_index::partition_synopses_
  blacklisted_layouts, \* meta_index::blacklisted_layouts_
  ingested,            \* history: the events of the slices added so far
  meta_query,          \* the expression of the last lookup
  meta_result          \* the candidates the last lookup returned

metaVars ==
  <<partition_synopses, blacklisted_layouts, ingested, meta_query,
    meta_result>>

\* ------------------------------------------------------------------------
\* State of a value index (an arithmetic_index)
\* ------------------------------------------------------------------------
VARIABLES
  mask_,        \* value_index::mask_, bit i + 1 is position i
  none_,        \* value_index::none_
  bmi_,         \* arithmetic_index::bmi_: per position a value or a skip;
                \* for the other kinds of index, what their bitmap indexes
                \* hold per position
  vi_kind,      \* the kind of the index: the type of the values it takes
  vi_init,      \* whether init() has set up the bitmap indexes
  vi_appended,  \* history: what each appended position holds
  vi_query,     \* the last lookup
  vi_result     \* and its result

viVars ==
  <<mask_, none_, bmi_, vi_kind, vi_init, vi_appended, vi_query, vi_result>>

\* ------------------------------------------------------------------------
\* State of a segment
\* ------------------------------------------------------------------------
VARIABLES
  base_,            \* segment::base_
  n_,               \* segment::n_
  occupied_bytes_,  \* segment::occupied_bytes_
  chunks_,          \* segment::chunks_, a chunk is the sequence of its events
  max_bytes_,       \* segment::max_bytes_
  seg_last          \* the last operation on the segment and what it returned

segVars == <<base_, n_, occupied_bytes_, chunks_, max_bytes_, seg_last>>

\* ------------------------------------------------------------------------
\* State of the partitions of the index
\* ------------------------------------------------------------------------
VARIABLES
  max_partition_size,  \* index_state::max_partition_size
  active,              \* index_state::active, the id of the partition or Nil
  unpersisted,         \* index_state::unpersisted: pairs (partition, counter)
  next_pid,            \* the next id that uuid::random() returns
  part_indexers,       \* per partition, the indexer_count() of its manager
  part_base,           \* per partition, the id of its first event
  part_size,           \* per partition, the number of its events
  persist_requests,    \* the persist requests that await their response
  persist_acked,       \* history: per sealed partition, the responses handled
  num_ingested,        \* the number of events ingested
  lru_loaded           \* the partitions in lru_partitions that were made
                       \* from the files of their directory

partVars ==
  <<max_partition_size, active, unpersisted, next_pid, part_indexers,
    part_base, part_size, persist_requests, persist_acked, num_ingested,
    lru_loaded>>

\* ------------------------------------------------------------------------
\* State of the segment manager
\* ------------------------------------------------------------------------
VARIABLES
  mgr_capacity,    \* the capacity the cache was constructed with
  segment_files_,  \* segment_manager::segment_files_: the ids with a path
  cache_,          \* segment_manager::cache_: entries (key, segment), the
                   \* least recently used first
  files,           \* the files of dir_: per file name the segment written
  mgr_mailbox,     \* the messages sent to the manager and not yet handled
  mgr_last,        \* the last message handled and the reply to it
  dir_tree,        \* the directory dir_ at construction: per directory its
                   \* entries
  scan_stack,      \* the calls of scan that have not returned, each with
                   \* its argument and the entry it visits next
  scan_status      \* "scanning", "done", or "overflow" when the calls
                   \* have used up the stack

mgrVars ==
  <<mgr_capacity, segment_files_, cache_, files, mgr_mailbox, mgr_last,
    dir_tree, scan_stack, scan_status>>

\* ------------------------------------------------------------------------
\* State of the default table slice builder
\* ------------------------------------------------------------------------
VARIABLES
  slice_,    \* default_table_slice_builder::slice_: null, or the slice
             \* under construction with its rows xs_
  row_,      \* default_table_slice_builder::row_, the row being filled
  col_,      \* default_table_slice_builder::col_, counted from 0
  tsb_last   \* the last call on the builder and what it returned

builderVars == <<slice_, row_, col_, tsb_last>>

vars ==
  <<schedVars, metaVars, viVars, segVars, partVars, mgrVars, builderVars>>

\* ------------------------------------------------------------------------
\* The partition cache (vast/detail/cache.hpp, an LRU cache)
\* ------------------------------------------------------------------------
lru_contains(cache, p) == p \in Range(cache)

lru_get_or_add(cache, cap, p) ==
  IF p \in Range(cache)
    THEN SelectSeq(cache, LAMBDA x : x # p) \o <<p>>
    ELSE LET grown == cache \o <<p>>
         IN IF Len(grown) > cap THEN Tail(grown) ELSE grown

\* The cache after locate_indexers went through the partitions xs in order.
RECURSIVE lru_after(_, _, _)
lru_after(cache, cap, xs) ==
  IF xs = <<>> THEN cache
  ELSE lru_after(lru_get_or_add(cache, cap, Head(xs)), cap, Tail(xs))

\* std::partition(candidates, [cached]): some arrangement with the cached
\* partitions first; the order within the two groups is unspecified.
std_partition(cands, cache) ==
  {t \in Arrangements(cands) :
     \A i, j \in 1..Len(t) :
       (i < j) => ~(~lru_contains(cache, t[i]) /\ lru_contains(cache, t[j]))}

\* ------------------------------------------------------------------------
\* index_state helpers
\* ------------------------------------------------------------------------
worker_available(idle) == idle # <<>>

\* A scope guard that never gives up the has_worker behavior.
guard_behavior_stay(idle) == TRUE

\* The scope guard of both handlers: unbecome() when no worker is left.
guard_behavior(idle) == worker_available(idle)

\* The number of partitions of the initial taste.
taste_scheduled(hits, taste) == IF hits <= taste THEN hits ELSE taste

\* A taste that forgets to erase the scheduled candidates.
taste_rest_keep(cands, taste) == cands

\* A taste that loses the first candidate it does not schedule.
taste_rest_skip(cands, taste) == SubSeq(cands, taste + 2, Len(cands))

\* The candidates stored in pending after the initial taste.
taste_rest(cands, taste) == SubSeq(cands, taste + 1, Len(cands))

\* The number of partitions a continue request takes.
continue_taken(num, size) == Min(num, size)

\* A continue that forgets to erase the candidates it took.
continue_rest_keep(cands, taken) == cands

\* What is left of the candidates after a continue request took `taken`.
continue_rest(cands, taken) == SubSeq(cands, taken + 1, Len(cands))

\* A cancel that leaves the entry in place.
pending_erase_nothing(pnd, qid) == pnd

\* st.pending.erase(query_id)
pending_erase(pnd, qid) == Restrict(pnd, DOMAIN pnd \ {qid})

\* ------------------------------------------------------------------------
\* Initial state
\* ------------------------------------------------------------------------
WorkerMsg(w) == [type |-> "worker", worker |-> w]

NoReply == [lid |-> 0]

NoJob == [kind |-> "none"]

InitSched ==
  /\ taste_partitions \in 0..MaxTaste
  /\ in_mem_partitions \in 1..MaxCache
  /\ lru_partitions = <<>>
  /\ idle_workers = <<>>
  /\ has_worker = FALSE
  /\ pending = <<>>
  /\ next_qid = 1
  \* index() spawns num_workers collectors; each asks its master for work
  \* when it is spawned.
  /\ \E num_workers \in 1..NumWorkers :
       mailbox = [w \in 1..num_workers |-> WorkerMsg(w)]
  /\ inbox = [w \in Workers |-> <<>>]
  /\ open_requests = [w \in Workers |-> <<>>]
  /\ requests = [w \in Workers |-> {}]
  /\ reply = NoReply
  /\ job = [w \in Workers |-> NoJob]
  /\ answered = [w \in Workers |-> {}]
  /\ sent = [w \in Workers |-> EmptyBag]
  /\ cancelled = {}
  /\ lookups_sent = 0
  /\ continues_sent = 0
  /\ dispatched = <<>>

\* ------------------------------------------------------------------------
\* Clients
\* ------------------------------------------------------------------------
ClientLookup(c) ==
  /\ lookups_sent < MaxLookups
  /\ lookups_sent' = lookups_sent + 1
  /\ mailbox' = Append(mailbox,
       [type |-> "lookup", client |-> c, lid |-> lookups_sent + 1])
  /\ UNCHANGED <<taste_partitions, in_mem_partitions, lru_partitions,
                 idle_workers, has_worker, pending, next_qid, inbox,
                 open_requests, requests, reply, job, answered, sent,
                 continues_sent,
                 cancelled, dispatched>>

ClientContinue(c, q, n) ==
  /\ continues_sent < MaxContinues
  /\ continues_sent' = continues_sent + 1
  /\ mailbox' = Append(mailbox,
       [type |-> "continue", client |-> c, query_id |-> q,
        num_partitions |-> n])
  /\ UNCHANGED <<taste_partitions, in_mem_partitions, lru_partitions,
                 idle_workers, has_worker, pending, next_qid, inbox,
                 open_requests, requests, reply, job, answered, sent,
                 lookups_sent,
                 cancelled, dispatched>>

\* ------------------------------------------------------------------------
\* The INDEX actor
\* ------------------------------------------------------------------------
\* The message the actor handles next. The default behavior skips everything
\* but worker messages (set_default_handler(caf::skip)); skipped messages
\* keep their place.
NextIndex ==
  IF has_worker
    THEN IF mailbox = <<>> THEN 0 ELSE 1
    ELSE IF \E i \in 1..Len(mailbox) : mailbox[i].type = "worker"
           THEN MinOf({i \in 1..Len(mailbox) : mailbox[i].type = "worker"})
           ELSE 0

Without(s, i) == SubSeq(s, 1, i - 1) \o SubSeq(s, i + 1, Len(s))

\* [=](worker_atom, caf::actor& worker), in both behaviors.
HandleWorker ==
  /\ NextIndex # 0
  /\ mailbox[NextIndex].type = "worker"
  /\ idle_workers' = Append(idle_workers, mailbox[NextIndex].worker)
  /\ has_worker' = TRUE
  /\ mailbox' = Without(mailbox, NextIndex)
  /\ UNCHANGED <<taste_partitions, in_mem_partitions, lru_partitions,
                 pending, next_qid, inbox, open_requests, requests, reply,
                 job, answered, sent, lookups_sent, continues_sent,
                 cancelled, dispatched>>

\* A lookup from an anonymous sender that uses up a worker.
HandleLookupAnonymousTakesWorker ==
  /\ has_worker /\ mailbox # <<>>
  /\ Head(mailbox).type = "lookup"
  /\ Head(mailbox).client = Anon
  /\ mailbox' = Tail(mailbox)
  /\ reply' = [lid |-> Head(mailbox).lid, error |-> TRUE]
  /\ idle_workers' = Front(idle_workers)
  /\ has_worker' = (Front(idle_workers) # <<>>)
  /\ UNCHANGED <<taste_partitions, in_mem_partitions, lru_partitions,
                 pending, next_qid, inbox, open_requests, requests, job,
                 answered, sent, lookups_sent, continues_sent, cancelled,
                 dispatched>>

\* A lookup from an anonymous sender: sec::invalid_argument.
HandleLookupAnonymous ==
  /\ has_worker /\ mailbox # <<>>
  /\ Head(mailbox).type = "lookup"
  /\ Head(mailbox).client = Anon
  /\ mailbox' = Tail(mailbox)
  /\ reply' = [lid |-> Head(mailbox).lid, error |-> TRUE]
  /\ UNCHANGED <<taste_partitions, in_mem_partitions, lru_partitions,
                 idle_workers, has_worker, pending, next_qid, inbox,
                 open_requests, requests, job, answered, sent, lookups_sent,
                 continues_sent,
                 cancelled, dispatched>>

\* A lookup without candidates that uses up a worker all the same.
HandleLookupEmptyTakesWorker ==
  /\ has_worker /\ mailbox # <<>>
  /\ Head(mailbox).type = "lookup"
  /\ Head(mailbox).client # Anon
  /\ mailbox' = Tail(mailbox)
  /\ reply' = [lid |-> Head(mailbox).lid, error |-> FALSE,
               query_id |-> Nil, hits |-> 0, scheduled |-> 0]
  /\ idle_workers' = Front(idle_workers)
  /\ has_worker' = (Front(idle_workers) # <<>>)
  /\ UNCHANGED <<taste_partitions, in_mem_partitions, lru_partitions,
                 pending, next_qid, inbox, open_requests, requests, job,
                 answered, sent, lookups_sent, continues_sent, cancelled,
                 dispatched>>

\* A lookup for which the meta index finds no candidate.
HandleLookupEmpty ==
  /\ has_worker /\ mailbox # <<>>
  /\ Head(mailbox).type = "lookup"
  /\ Head(mailbox).client # Anon
  /\ mailbox' = Tail(mailbox)
  /\ reply' = [lid |-> Head(mailbox).lid, error |-> FALSE,
               query_id |-> Nil, hits |-> 0, scheduled |-> 0]
  /\ UNCHANGED <<taste_partitions, in_mem_partitions, lru_partitions,
                 idle_workers, has_worker, pending, next_qid, inbox,
                 open_requests, requests, job, answered, sent, lookups_sent,
                 continues_sent,
                 cancelled, dispatched>>

\* How often p occurs in the sequence xs.
Occurrences(xs, p) == Cardinality({i \in DOMAIN xs : xs[i] = p})

\* locate_indexers and the send to the next worker: `parts` are the
\* partitions of the query map in the order they were located, `nidx` the
\* number of INDEXER actors get_indexers found for each.
Dispatch(kind, client, qid, cands, parts, nidx, num) ==
  LET w == Last(idle_workers)
      qm == [p \in Range(parts) |-> nidx[p]]
  IN /\ lru_partitions' = lru_after(lru_partitions, in_mem_partitions, parts)
     /\ idle_workers' = Front(idle_workers)
     /\ has_worker' = guard_behavior(Front(idle_workers))
     /\ inbox' = [inbox EXCEPT ![w] =
          Append(@, [qm |-> qm, client |-> client])]
     /\ job' = [job EXCEPT ![w] =
          [kind |-> kind, client |-> client, query_id |-> qid,
           candidates |-> Range(cands), qm |-> qm, num |-> num]]
     /\ dispatched' =
          IF qid = Nil THEN dispatched
          ELSE IF kind = "lookup"
            THEN dispatched @@ (qid :>
                   [candidates |-> Range(cands),
                    count |-> [p \in Range(cands) |-> Occurrences(parts, p)]])
            ELSE [dispatched EXCEPT ![qid].count =
                   [p \in DOMAIN @ |-> @[p] + Occurrences(parts, p)]]

\* The lookup handler for a non-empty candidate set.
HandleLookup ==
  /\ has_worker /\ mailbox # <<>>
  /\ Head(mailbox).type = "lookup"
  /\ Head(mailbox).client # Anon
  /\ \E S \in (SUBSET Partitions) \ {{}} :
       LET candidates == SortedSeq(S)
           hits == Len(candidates)
           scheduled == taste_scheduled(hits, taste_partitions)
           m == Head(mailbox)
       IN IF hits <= taste_partitions
            THEN \E nidx \in [S -> 1..MaxIndexers] :
                 /\ Dispatch("lookup", m.client, Nil, candidates, candidates,
                             nidx, 0)
                 /\ reply' = [lid |-> m.lid, error |-> FALSE,
                              query_id |-> Nil, hits |-> hits,
                              scheduled |-> scheduled]
                 /\ UNCHANGED <<pending, next_qid>>
            ELSE \E arranged \in std_partition(candidates, lru_partitions) :
                 \E nidx \in [Range(SubSeq(arranged, 1, taste_partitions))
                                -> 1..MaxIndexers] :
                 /\ Dispatch("lookup", m.client, next_qid, candidates,
                             SubSeq(arranged, 1, taste_partitions), nidx, 0)
                 /\ pending' = pending @@ (next_qid :>
                      taste_rest(arranged, taste_partitions))
                 /\ next_qid' = next_qid + 1
                 /\ reply' = [lid |-> m.lid, error |-> FALSE,
                              query_id |-> next_qid, hits |-> hits,
                              scheduled |-> scheduled]
  /\ mailbox' = Tail(mailbox)
  /\ UNCHANGED <<taste_partitions, in_mem_partitions, open_requests,
                 requests, answered, sent, lookups_sent, continues_sent,
                 cancelled>>

\* continue(query_id, 0): the client drops further results.
HandleContinueDrop ==
  /\ has_worker /\ mailbox # <<>>
  /\ Head(mailbox).type = "continue"
  /\ Head(mailbox).num_partitions = 0
  /\ pending' = pending_erase(pending, Head(mailbox).query_id)
  /\ cancelled' = cancelled \cup
       {[query_id |-> Head(mailbox).query_id,
         dropped |-> IF Head(mailbox).query_id \in DOMAIN pending
                       THEN Len(pending[Head(mailbox).query_id]) ELSE 0]}
  /\ mailbox' = Tail(mailbox)
  /\ UNCHANGED <<taste_partitions, in_mem_partitions, lru_partitions,
                 idle_workers, has_worker, next_qid, inbox, open_requests,
                 requests, reply, job, answered, sent, lookups_sent,
                 continues_sent, dispatched>>

\* continue from an anonymous sender or for an unknown query id: ignored.
HandleContinueIgnored ==
  /\ has_worker /\ mailbox # <<>>
  /\ Head(mailbox).type = "continue"
  /\ Head(mailbox).num_partitions > 0
  /\ \/ Head(mailbox).client = Anon
     \/ Head(mailbox).query_id \notin DOMAIN pending
  /\ mailbox' = Tail(mailbox)
  /\ UNCHANGED <<taste_partitions, in_mem_partitions, lru_partitions,
                 idle_workers, has_worker, pending, next_qid, inbox,
                 open_requests, requests, reply, job, answered, sent,
                 lookups_sent, continues_sent,
                 cancelled, dispatched>>

\* continue(query_id, num_partitions) for a pending query.
HandleContinue ==
  /\ has_worker /\ mailbox # <<>>
  /\ Head(mailbox).type = "continue"
  /\ Head(mailbox).num_partitions > 0
  /\ Head(mailbox).client # Anon
  /\ Head(mailbox).query_id \in DOMAIN pending
  /\ LET m == Head(mailbox)
         qid == m.query_id
     IN \E arranged \in std_partition(pending[qid], lru_partitions) :
          LET taken == continue_taken(m.num_partitions, Len(arranged))
              rest == continue_rest(arranged, taken)
          IN \E nidx \in [Range(SubSeq(arranged, 1, taken))
                            -> 1..MaxIndexers] :
             /\ Dispatch("continue", m.client, qid, arranged,
                         SubSeq(arranged, 1, taken), nidx, m.num_partitions)
             /\ pending' =
                  IF taken = Len(arranged)
                    THEN pending_erase(pending, qid)
                    ELSE [pending EXCEPT ![qid] = rest]
  /\ mailbox' = Tail(mailbox)
  /\ UNCHANGED <<taste_partitions, in_mem_partitions, next_qid,
                 open_requests, requests, reply, answered, sent,
                 lookups_sent, continues_sent,
                 cancelled>>

\* ------------------------------------------------------------------------
\* The collector (worker)
\* ------------------------------------------------------------------------
\* [=](expression& expr, query_map& qm, actor& client): one request per
\* INDEXER actor of every partition of the query map.
CollectorQuery(w) ==
  /\ inbox[w] # <<>>
  /\ LET m == Head(inbox[w])
         old == open_requests[w]
     IN /\ open_requests' = [open_requests EXCEPT ![w] =
             [p \in DOMAIN old \cup DOMAIN m.qm |->
                IF p \in DOMAIN m.qm
                  THEN [num_indexers |-> m.qm[p], result |-> {}]
                  ELSE old[p]]]
        /\ requests' = [requests EXCEPT ![w] = @ \cup
             UNION {{[part |-> p, idx |-> i, client |-> m.client] :
                       i \in 1..m.qm[p]} : p \in DOMAIN m.qm}]
  /\ inbox' = [inbox EXCEPT ![w] = Tail(@)]
  /\ answered' = [answered EXCEPT ![w] = {}]
  /\ sent' = [sent EXCEPT ![w] = EmptyBag]
  /\ UNCHANGED <<taste_partitions, in_mem_partitions, lru_partitions,
                 idle_workers, has_worker, pending, next_qid, mailbox,
                 reply, job, lookups_sent, continues_sent,
                 cancelled, dispatched>>

\* A collector that keeps only the last sub result.
collector_merge_last(result, sub_result) == sub_result

\* result |= sub_result
collector_merge(result, sub_result) == result \cup sub_result

\* if (--num_indexers == 0): all sub results of the partition are in.
collector_complete(num_indexers) == num_indexers - 1 = 0

\* A collector that asks for new work after every partition.
collector_done_early(open) == TRUE

\* if (self->state.open_requests.empty()): ask the master for new work.
collector_done(open) == DOMAIN open = {}

\* The response handler of one INDEXER request, with its sub result.
CollectorReply(w, r, sub_result) ==
  /\ r \in requests[w]
  /\ LET open == open_requests[w]
         entry == IF r.part \in DOMAIN open THEN open[r.part]
                  ELSE [num_indexers |-> 0, result |-> {}]
         result == collector_merge(entry.result, sub_result)
         erased == Restrict(open, DOMAIN open \ {r.part})
     IN IF collector_complete(entry.num_indexers)
          THEN /\ sent' = [sent EXCEPT ![w] = @ (+) SetToBag(
                    {[client |-> r.client, part |-> r.part, ids |-> result]})]
               /\ open_requests' = [open_requests EXCEPT ![w] = erased]
               /\ mailbox' = IF collector_done(erased)
                               THEN Append(mailbox, WorkerMsg(w))
                               ELSE mailbox
          ELSE /\ open_requests' = [open_requests EXCEPT ![w] =
                    [p \in DOMAIN open \cup {r.part} |->
                       IF p = r.part
                         THEN [num_indexers |-> entry.num_indexers - 1,
                               result |-> result]
                         ELSE open[p]]]
               /\ UNCHANGED <<sent, mailbox>>
  /\ requests' = [requests EXCEPT ![w] = @ \ {r}]
  /\ answered' = [answered EXCEPT ![w] = @ \cup
       {[part |-> r.part, idx |-> r.idx, ids |-> sub_result]}]
  /\ UNCHANGED <<taste_partitions, in_mem_partitions, lru_partitions,
                 idle_workers, has_worker, pending, next_qid, inbox, reply,
                 job, lookups_sent, continues_sent,
                 cancelled, dispatched>>

\* ------------------------------------------------------------------------
\* The meta index
\* ------------------------------------------------------------------------
NumMetaPartitions == 2
MaxVal == 1
MaxRows == 1
MaxEvents == 2

MetaPartitions == 1..NumMetaPartitions
Values == 0..MaxVal

\* Record fields and the layouts of the slices that are ingested: a
\* timestamp column, a column of the same name and another type, and a
\* layout with both kinds of columns.
Field(n, t) == [name |-> n, type |-> t]

LayoutA == <<Field(<<"t">>, "timestamp")>>

LayoutB == <<Field(<<"t">>, "count")>>

LayoutC == <<Field(<<"t">>, "timestamp"), Field(<<"i", "n">>, "count")>>

Layouts == {LayoutA, LayoutB, LayoutC}

Types == {"timestamp", "count"}

\* All sequences over S of a length in lo..hi.
SeqsOf(S, lo, hi) == UNION {[1..n -> S] : n \in lo..hi}

Slices ==
  UNION {[layout : {l}, rows : SeqsOf([1..Len(l) -> Values], 1, MaxRows)] :
           l \in Layouts}

\* Expressions.
Extractors ==
  {[kind |-> "attribute", attr |-> "time"],
   [kind |-> "attribute", attr |-> "type"],
   [kind |-> "key", key |-> <<"t">>],
   [kind |-> "key", key |-> <<"n">>],
   [kind |-> "type", type |-> "timestamp"],
   [kind |-> "type", type |-> "count"]}

Operators == {"<", "<=", "==", ">=", ">"}

Data == [type : Types, val : Values]

Predicates ==
  [kind : {"predicate"}, lhs : Extractors, op : Operators, rhs : Data]

\* The predicates that compound expressions are built from.
TimePredicates ==
  [kind : {"predicate"}, lhs : {[kind |-> "key", key |-> <<"t">>]},
   op : {"<=", ">="}, rhs : [type : {"timestamp"}, val : Values]]

Connectives == {"conjunction", "disjunction"}

\* The two predicates "at most the least value" and "at least the
\* greatest value".
EdgePredicates ==
  {x \in TimePredicates :
     \/ x.op = "<=" /\ x.rhs.val = 0
     \/ x.op = ">=" /\ x.rhs.val = MaxVal}

\* The operands of compound expressions: predicates, a negation, and the
\* conjunction and the disjunction of two predicates.
Operands ==
  EdgePredicates
    \cup [kind : {"negation"}, arg : {x \in EdgePredicates : x.op = "<="}]
    \cup {[kind |-> c, args |-> SortedPreds] :
            c \in Connectives,
            SortedPreds \in {y \in [1..2 -> EdgePredicates] :
                               y[1].op = "<=" /\ y[2].op = ">="}}

\* time >= lo && time <= hi
TimeRange(lo, hi) ==
  [kind |-> "conjunction",
   args |-> <<[kind |-> "predicate",
               lhs |-> [kind |-> "attribute", attr |-> "time"], op |-> ">=",
               rhs |-> [type |-> "timestamp", val |-> lo]],
              [kind |-> "predicate",
               lhs |-> [kind |-> "attribute", attr |-> "time"], op |-> "<=",
               rhs |-> [type |-> "timestamp", val |-> hi]]>>]

TimeRanges == {TimeRange(lo, hi) : lo \in Values, hi \in Values}

Expressions ==
  Predicates
    \cup [kind : Connectives, args : [1..2 -> Operands]]
    \cup TimeRanges
    \cup [kind : {"negation"}, arg : TimePredicates]

\* detail::ends_with
ends_with(str, suffix) ==
  /\ Len(suffix) <= Len(str)
  /\ SubSeq(str, Len(str) - Len(suffix) + 1, Len(str)) = suffix

compare(x, op, y) ==
  CASE op = "<" -> x < y
    [] op = "<=" -> x <= y
    [] op = "==" -> x = y
    [] op = ">=" -> x >= y
    [] op = ">" -> x > y

\* The synopsis factory: by default only timestamp columns get a synopsis, a
\* (min, max) pair that starts empty.
NullSynopsis == [null |-> TRUE, min |-> 0, max |-> 0]

make_synopsis(type) ==
  IF type = "timestamp"
    THEN [null |-> FALSE, min |-> MaxVal + 1, max |-> 0 - 1]
    ELSE NullSynopsis

synopsis_add(syn, x) ==
  [syn EXCEPT !.min = IF x < @ THEN x ELSE @,
              !.max = IF x > @ THEN x ELSE @]

\* Whether the column may hold a value v with v op x. A synopsis may answer
\* true for any operand; for an operand of another type this one does, which
\* omits the fewest partitions.
synopsis_lookup(syn, op, x) ==
  IF x.type # "timestamp" THEN TRUE
  ELSE CASE op = "==" -> syn.min <= x.val /\ x.val <= syn.max
         [] op = "<" -> syn.min < x.val
         [] op = "<=" -> syn.min <= x.val
         [] op = ">" -> syn.max > x.val
         [] op = ">=" -> syn.max >= x.val

\* The synopses of a column after the rows of a slice were added to it.
RECURSIVE add_rows(_, _, _)
add_rows(syn, rows, col) ==
  IF rows = <<>> THEN syn
  ELSE add_rows(synopsis_add(syn, Head(rows)[col]), Tail(rows), col)

\* meta_index::add
meta_index_add(partition, slice) ==
  LET layout == slice.layout
      known == partition \in DOMAIN partition_synopses
      part_synopsis == IF known THEN partition_synopses[partition] ELSE <<>>
      fresh == [col \in 1..Len(layout) |-> make_synopsis(layout[col].type)]
      seen == layout \in DOMAIN part_synopsis
      table_syn == IF seen THEN part_synopsis[layout] ELSE fresh
      filled == [col \in 1..Len(layout) |->
                   IF table_syn[col].null THEN table_syn[col]
                   ELSE add_rows(table_syn[col], slice.rows, col)]
  IN IF layout \in blacklisted_layouts
       THEN /\ partition_synopses' =
                 [q \in DOMAIN partition_synopses \cup {partition} |->
                    IF q = partition THEN part_synopsis
                    ELSE partition_synopses[q]]
            /\ UNCHANGED blacklisted_layouts
       ELSE /\ partition_synopses' =
                 [q \in DOMAIN partition_synopses \cup {partition} |->
                    IF q = partition
                      THEN [l \in DOMAIN part_synopsis \cup {layout} |->
                              IF l = layout THEN filled ELSE part_synopsis[l]]
                      ELSE partition_synopses[q]]
            /\ blacklisted_layouts' =
                 IF ~seen /\ \A col \in 1..Len(layout) : fresh[col].null
                   THEN blacklisted_layouts \cup {layout}
                   ELSE blacklisted_layouts

\* all_partitions in meta_index::lookup
all_partitions == SortedSeq(DOMAIN partition_synopses)

\* The match function of an extractor, applied to a record field.
extractor_match(lhs, field) ==
  CASE lhs.kind = "attribute" -> field.type = "timestamp"
    [] lhs.kind = "key" -> ends_with(field.name, lhs.key)
    [] lhs.kind = "type" -> field.type = lhs.type

\* The fields of a partition's layouts that have a synopsis and that the
\* extractor matches, as pairs of a layout and a column.
matching_fields(part, lhs) ==
  {x \in (DOMAIN partition_synopses[part]) \X (1..2) :
     /\ x[2] <= Len(x[1])
     /\ ~partition_synopses[part][x[1]][x[2]].null
     /\ extractor_match(lhs, x[1][x[2]])}

\* The matching synopses of a partition: those that exist and whose field
\* the extractor matches.
matching_synopses(part, lhs) ==
  {partition_synopses[part][x[1]][x[2]] : x \in matching_fields(part, lhs)}

\* result.push_back(part_id), whatever the last element is.
push_back_always(result, part_id) == Append(result, part_id)

\* A search that drops the partition.
push_back_never(result, part_id) == result

\* if (result.empty() || result.back() != part_id) result.push_back(part_id)
push_back_unique(result, part_id) ==
  IF result = <<>> \/ Last(result) # part_id
    THEN Append(result, part_id)
    ELSE result

\* The part of the search loop that visits one partition: one push for
\* each of the n matching synopses whose lookup succeeds.
RECURSIVE search_partition(_, _, _)
search_partition(result, part_id, n) ==
  IF n = 0 THEN result
  ELSE search_partition(push_back_unique(result, part_id), part_id, n - 1)

\* The search loop over the partitions parts[i..], in the order of parts.
RECURSIVE search_loop(_, _, _, _, _, _)
search_loop(result, parts, i, lhs, op, rhs) ==
  IF i > Len(parts) THEN result
  ELSE LET n == Cardinality({x \in matching_fields(parts[i], lhs) :
                               synopsis_lookup(
                                 partition_synopses[parts[i]][x[1]][x[2]],
                                 op, rhs)})
       IN search_loop(search_partition(result, parts[i], n), parts, i + 1,
                      lhs, op, rhs)

\* std::sort: the elements of xs in ascending order, each as often as in
\* xs.
std_sort(xs) ==
  CHOOSE ys \in [1..Len(xs) -> Range(xs)] :
    /\ \A i \in 1..(Len(xs) - 1) : ys[i] <= ys[i + 1]
    /\ \A v \in Range(xs) :
         Cardinality({i \in 1..Len(xs) : ys[i] = v})
           = Cardinality({i \in 1..Len(xs) : xs[i] = v})

\* The order in which the loops visit partition_synopses_, a hash map:
\* here from the greatest id down; the result is sorted afterwards.
iteration_order ==
  LET asc == SortedSeq(DOMAIN partition_synopses)
  IN [i \in 1..Len(asc) |-> asc[Len(asc) + 1 - i]]

\* found_matching_synopsis ? result : all_partitions()
search_result(found_matching_synopsis, result) ==
  IF found_matching_synopsis THEN result ELSE all_partitions

\* The search lambda of meta_index::lookup.
search(lhs, op, rhs) ==
  LET result == std_sort(search_loop(<<>>, iteration_order, 1, lhs, op, rhs))
      found_matching_synopsis ==
        \E part \in DOMAIN partition_synopses :
          matching_synopses(part, lhs) # {}
  IN search_result(found_matching_synopsis, result)

\* An intersection that keeps its first operand.
inplace_keep(xs, ys) == xs

\* detail::inplace_intersect and detail::inplace_unify on sorted vectors.
inplace_intersect(xs, ys) == SortedSeq(Range(xs) \cap Range(ys))

inplace_unify(xs, ys) == SortedSeq(Range(xs) \cup Range(ys))

lookup_predicate(x) ==
  IF x.lhs.kind = "attribute" /\ x.lhs.attr # "time"
    THEN all_partitions
    ELSE search(x.lhs, x.op, x.rhs)

RECURSIVE meta_index_lookup(_)

\* The conjunction visitor, from operand i on, with the result so far.
RECURSIVE lookup_conjunction(_, _, _)
lookup_conjunction(args, i, result) ==
  IF i > Len(args) THEN result
  ELSE LET xs == meta_index_lookup(args[i])
       IN IF xs = <<>> THEN xs
          ELSE lookup_conjunction(args, i + 1, inplace_intersect(result, xs))

\* The disjunction visitor, from operand i on, with the result so far.
RECURSIVE lookup_disjunction(_, _, _)
lookup_disjunction(args, i, result) ==
  IF i > Len(args) THEN result
  ELSE LET xs == meta_index_lookup(args[i])
       IN IF Len(xs) = Cardinality(DOMAIN partition_synopses) THEN xs
          ELSE lookup_disjunction(args, i + 1, inplace_unify(result, xs))

\* meta_index::lookup
meta_index_lookup(expr) ==
  CASE expr.kind = "predicate" -> lookup_predicate(expr)
    [] expr.kind = "negation" -> all_partitions
    [] expr.kind = "conjunction" ->
         LET result == meta_index_lookup(expr.args[1])
         IN IF result # <<>>
              THEN lookup_conjunction(expr.args, 2, result)
              ELSE result
    [] expr.kind = "disjunction" ->
         lookup_disjunction(expr.args, 1, <<>>)

\* Whether an event satisfies an expression: a predicate holds when the
\* extractor matches a field whose value has the type of the operand and
\* relates to it; what an attribute other than time refers to is not
\* modelled, such a predicate may hold of any event.
event_satisfies_predicate(ev, x) ==
  IF x.lhs.kind = "attribute" /\ x.lhs.attr # "time" THEN TRUE
  ELSE \E i \in 1..Len(ev.layout) :
         /\ extractor_match(x.lhs, ev.layout[i])
         /\ ev.layout[i].type = x.rhs.type
         /\ compare(ev.row[i], x.op, x.rhs.val)

RECURSIVE event_satisfies(_, _)
event_satisfies(ev, expr) ==
  CASE expr.kind = "predicate" -> event_satisfies_predicate(ev, expr)
    [] expr.kind = "negation" -> ~event_satisfies(ev, expr.arg)
    [] expr.kind = "conjunction" ->
         \A i \in 1..Len(expr.args) : event_satisfies(ev, expr.args[i])
    [] expr.kind = "disjunction" ->
         \E i \in 1..Len(expr.args) : event_satisfies(ev, expr.args[i])

NoQuery == [kind |-> "none"]

InitMeta ==
  /\ partition_synopses = <<>>
  /\ blacklisted_layouts = {}
  /\ ingested = {}
  /\ meta_query = NoQuery
  /\ meta_result = <<>>

\* A slice is ingested into a partition.
MetaAdd(partition, slice) ==
  /\ Cardinality(ingested) < MaxEvents
  /\ meta_index_add(partition, slice)
  /\ ingested' = ingested \cup
       {[part |-> partition, layout |-> slice.layout, row |-> slice.rows[i]] :
          i \in 1..Len(slice.rows)}
  /\ meta_query' = NoQuery
  /\ meta_result' = <<>>

\* The candidates of an expression are looked up.
MetaLookup(expr) ==
  /\ meta_query' = expr
  /\ meta_result' = meta_index_lookup(expr)
  /\ UNCHANGED <<partition_synopses, blacklisted_layouts, ingested>>

\* ------------------------------------------------------------------------
\* The value index
\* ------------------------------------------------------------------------
MaxPos == 2
MaxData == 1

Positions == 0..MaxPos

NilData == [kind |-> "nil", val |-> 0]

ArithmeticData == [kind : {"count"}, val : 0..MaxData]

\* Data an arithmetic index rejects.
StringData == [kind |-> "string", val |-> 0]

\* The strings, addresses, subnets and ports that are appended and looked
\* up; the val of a data is its place in the table of its kind, from 0.
StringTable ==
  <<<<>>, <<"a">>, <<"a", "b">>, <<"a", "b", "a">>, <<"b">>>>

V4Prefix == [i \in 1..12 |-> IF i > 10 THEN 255 ELSE 0]

V4(b) == V4Prefix \o <<0, 0, 0, b>>

V6(b) == <<32>> \o [i \in 1..14 |-> 0] \o <<b>>

AddressTable == <<V4(1), V4(2), V6(1)>>

\* ip_subnet: the network address and the prefix length, which counts from
\* bit 96 when the network address embeds a v4 address.
SubnetTable ==
  <<[network |-> V4(1), length |-> 32], [network |-> V4(0), length |-> 24],
    [network |-> V6(0), length |-> 64], [network |-> V6(1), length |-> 128],
    [network |-> [i \in 1..16 |-> 0], length |-> 0],
    [network |-> V4(2), length |-> 31]>>

PortTable ==
  <<[number |-> 80, type |-> "tcp"], [number |-> 80, type |-> "udp"],
    [number |-> 53, type |-> "unknown"], [number |-> 53, type |-> "tcp"]>>

DataOf(kind, table) == [kind : {kind}, val : 0..(Len(table) - 1)]

Kinds == {"count", "string", "address", "subnet", "port"}

ViewData ==
  {NilData, StringData} \cup ArithmeticData
    \cup DataOf("string", StringTable) \cup DataOf("address", AddressTable)
    \cup DataOf("subnet", SubnetTable) \cup DataOf("port", PortTable)

\* The last string, the last three subnets and the last port of the
\* tables are looked up and never appended.
LookupOnly ==
  {[kind |-> "string", val |-> 4], [kind |-> "port", val |-> 3]}
    \cup [kind : {"subnet"}, val : 3..5]

\* The data an index is given: those of its type, nil, and one of another
\* type.
IndexData ==
  ({x \in ViewData : x.kind \in {vi_kind, "nil"}} \ LookupOnly)
    \cup (IF vi_kind = "string" THEN {[kind |-> "count", val |-> 0]}
          ELSE {StringData})

\* The data an index is asked about: those it is given, the others of its
\* type and, for an address index, the subnets.
LookupData ==
  IndexData \cup {x \in LookupOnly : x.kind = vi_kind}
    \cup (IF vi_kind = "address" THEN DataOf("subnet", SubnetTable) ELSE {})

\* string_index::max_length_
MaxLength == 2

\* The characters of a string that the string index looks at: the first
\* max_length_.
chars(x) ==
  LET str == StringTable[x.val + 1]
  IN SubSeq(str, 1, Min(Len(str), MaxLength))

address_bytes(x) == AddressTable[x.val + 1]

\* ip_address::embeds_v4
embeds_v4(bytes) == SubSeq(bytes, 1, 12) = V4Prefix

subnet(x) == SubnetTable[x.val + 1]

port(x) == PortTable[x.val + 1]

RelationalOperators == {"==", "!=", "<", "<=", ">", ">="}

\* The operators a lookup is called with: the six above, for a string
\* index ni, and for an address index in.
LookupOperators(kind) ==
  RelationalOperators
    \cup (IF kind = "string" THEN {"ni"} ELSE {})
    \cup (IF kind = "address" THEN {"in"} ELSE {})

\* Bitmaps are sequences of bits; a binary operation yields a bitmap of the
\* longer size and reads the shorter operand as padded with zeros.
bit(bm, i) == i <= Len(bm) /\ bm[i]

MaxOf(a, b) == IF a > b THEN a ELSE b

bitmap_and(a, b) == [i \in 1..MaxOf(Len(a), Len(b)) |-> bit(a, i) /\ bit(b, i)]

bitmap_minus(a, b) ==
  [i \in 1..MaxOf(Len(a), Len(b)) |-> bit(a, i) /\ ~bit(b, i)]

bitmap_not(a) == [i \in 1..Len(a) |-> ~a[i]]

append_bits(bm, b, n) == bm \o [i \in 1..n |-> b]

append_bit(bm, b) == Append(bm, b)

\* value_index::offset
offset == Len(mask_)

Skip == [kind |-> "skip", val |-> 0]

\* append_impl: whether the index accepts the data; every kind of index
\* takes the views of its own type.
append_impl_ok(x) == x.kind = vi_kind

\* Whether append_impl(x, pos) calls init(): the address index does so
\* before it looks at the type of x, the string, subnet and port index
\* once they know that x has their type; the arithmetic index has no init.
append_impl_inits(x) ==
  \/ vi_kind = "address"
  \/ vi_kind \in {"string", "subnet", "port"} /\ append_impl_ok(x)

\* arithmetic_index::append_impl: the bitmap index afterwards.
append_impl(x, pos) == Append(bmi_ \o [i \in 1..(pos - Len(bmi_)) |-> Skip], x)

\* The none_ bitmap after the append of a nil at pos.
none_append(pos) == append_bit(append_bits(none_, FALSE, pos - Len(none_)), TRUE)

\* A mask_ that grows by the appended position alone.
mask_append_bit(pos) == append_bit(mask_, TRUE)

\* The mask_ bitmap after an append at pos.
mask_append(pos) == append_bit(append_bits(mask_, FALSE, pos - offset), TRUE)

\* An append that reports its error after it has grown mask_.
value_index_append_late_error(x, pos) ==
  /\ \/ pos < offset
     \/ pos >= offset /\ x.kind # "nil" /\ ~append_impl_ok(x)
  /\ mask_' = append_bit(mask_, TRUE)
  /\ vi_init' = (vi_init \/ (pos >= offset /\ append_impl_inits(x)))
  /\ UNCHANGED <<none_, bmi_, vi_kind, vi_appended>>
  /\ vi_query' = [kind |-> "append", op |-> "", x |-> x]
  /\ vi_result' = [ok |-> FALSE, bits |-> <<>>]

\* value_index::append(x, pos) fails: pos is not at the end, or the
\* index rejects the data; the index is left as it was.
value_index_append_error(x, pos) ==
  /\ \/ pos < offset
     \/ pos >= offset /\ x.kind # "nil" /\ ~append_impl_ok(x)
  /\ vi_init' = (vi_init \/ (pos >= offset /\ append_impl_inits(x)))
  /\ UNCHANGED <<mask_, none_, bmi_, vi_kind, vi_appended>>
  /\ vi_query' = [kind |-> "append", op |-> "", x |-> x]
  /\ vi_result' = [ok |-> FALSE, bits |-> <<>>]

\* value_index::append(x, pos)
value_index_append(x, pos) ==
  /\ pos >= offset
  /\ IF x.kind = "nil"
       THEN /\ none_' = none_append(pos)
            /\ UNCHANGED <<bmi_, vi_init>>
       ELSE /\ append_impl_ok(x)
            /\ bmi_' = append_impl(x, pos)
            /\ vi_init' = (vi_init \/ append_impl_inits(x))
            /\ UNCHANGED none_
  /\ mask_' = mask_append(pos)
  /\ UNCHANGED vi_kind
  /\ vi_appended' =
       [p \in DOMAIN vi_appended \cup {pos} |->
          IF p = pos THEN x ELSE vi_appended[p]]
  /\ vi_query' = [kind |-> "append", op |-> "", x |-> x]
  /\ vi_result' = [ok |-> TRUE, bits |-> <<>>]

\* value_index::append(x): an append at the current offset.
value_index_append_end(x) ==
  \/ value_index_append(x, offset)
  \/ value_index_append_error(x, offset)

\* The results bmi_.lookup(op, x) can have: a position with a value is in
\* the result iff the value relates to x; what a skipped position yields
\* depends on the coder, every outcome is considered.
bmi_lookup(op, x) ==
  {bm \in [1..Len(bmi_) -> BOOLEAN] :
     \A i \in 1..Len(bmi_) :
       bmi_[i].kind # "skip" =>
         (bm[i] <=> IF op = "!=" THEN bmi_[i].val # x.val
                    ELSE compare(bmi_[i].val, op, x.val))}

\* The bitmaps that agree with what is known of the positions: Match(i)
\* is "yes" or "no" where the bitmap indexes determine the bit of position
\* i - 1 and "free" where a skipped position is looked up.
Bitmaps(n, Match(_)) ==
  {bm \in [1..n -> BOOLEAN] :
     \A i \in 1..n : Match(i) # "free" => (bm[i] <=> Match(i) = "yes")}

YesNo(b) == IF b THEN "yes" ELSE "no"

\* A string lookup that takes the operand at its full length.
string_match_untruncated(e, op, x) ==
  LET str == StringTable[x.val + 1]
      c == chars(e)
      eq == IF Len(c) > Len(str) THEN "no"
            ELSE IF \E j \in 1..Len(c) : c[j] # str[j] THEN "no"
            ELSE IF Len(c) = Len(str) THEN "yes"
            ELSE "free"
  IN IF eq = "free" THEN eq ELSE YesNo((eq = "yes") <=> (op = "=="))

\* string_index::lookup_impl for == and != : the length is at most that
\* of the operand and the characters agree; a shorter string has nothing
\* at the further characters.
string_match(e, op, x) ==
  LET str == chars(x)
      c == chars(e)
      eq == IF Len(c) > Len(str) THEN "no"
            ELSE IF \E j \in 1..Len(c) : c[j] # str[j] THEN "no"
            ELSE IF Len(c) = Len(str) THEN "yes"
            ELSE "free"
  IN IF eq = "free" THEN eq ELSE YesNo((eq = "yes") <=> (op = "=="))

\* chars_.size(): the length of the longest string appended, capped at
\* max_length_.
chars_size ==
  LET lengths == {Len(chars(bmi_[i])) :
                    i \in {j \in 1..Len(bmi_) : bmi_[j].kind # "skip"}}
  IN IF lengths = {} THEN 0
     ELSE CHOOSE n \in lengths : \A k \in lengths : k <= n

\* The window of string_index::lookup_impl for ni that starts at character
\* i of the string e: the characters of the operand agree with those of e;
\* beyond the end of e nothing was appended to chars_.
ni_window(e, str, i) ==
  LET c == chars(e)
  IN IF \E j \in 1..Len(str) : i + j <= Len(c) /\ c[i + j] # str[j]
       THEN "no"
     ELSE IF i + Len(str) <= Len(c) THEN "yes"
     ELSE "free"

\* string_index::lookup_impl for ni: the union of the windows at the
\* characters 0..chars_.size() - |str|.
string_ni(e, x) ==
  LET str == chars(x)
      windows == {ni_window(e, str, i) : i \in 0..(chars_size - Len(str))}
  IN IF Len(str) = 0 THEN "yes"
     ELSE IF Len(str) > chars_size THEN "no"
     ELSE IF "yes" \in windows THEN "yes"
     ELSE IF windows = {"no"} THEN "no"
     ELSE "free"

\* address_index::lookup_impl for == and != : the bytes agree, from byte
\* 12 on for an operand that embeds a v4 address, which only the v4
\* addresses of the index can equal.
address_equal(a, b) ==
  /\ embeds_v4(b) => embeds_v4(a)
  /\ \A i \in (IF embeds_v4(b) THEN 13 ELSE 1)..16 : a[i] = b[i]

address_match(e, op, x) ==
  YesNo(address_equal(address_bytes(e), address_bytes(x)) <=> (op = "=="))

\* address_index::lookup_impl for in and a subnet that is neither /32 nor
\* /128: the whole bytes of the prefix agree, from byte 12 on for a v4
\* network, which only v4 addresses can lie in; the further bits of the
\* prefix are read from the storage of the coder of the next byte, whose
\* bits are not known here.
address_in_prefix(a, sn) ==
  LET is_v4 == embeds_v4(sn.network)
      first == IF is_v4 THEN 12 ELSE 0
      whole == sn.length \div 8
  IN IF is_v4 /\ ~embeds_v4(a) THEN "no"
     ELSE IF \E i \in (first + 1)..(first + whole) : a[i] # sn.network[i]
       THEN "no"
     ELSE IF sn.length % 8 = 0 THEN "yes"
     ELSE "free"

\* address_index::lookup_impl for in: /32 and /128 are an equality lookup
\* of the network address.
address_in(e, x) ==
  LET sn == subnet(x)
      topk == sn.length
  IN IF (IF embeds_v4(sn.network) THEN topk + 96 ELSE topk) = 128
       THEN YesNo(address_equal(address_bytes(e), sn.network))
       ELSE address_in_prefix(address_bytes(e), sn)

\* subnet_index::lookup_impl for == and != : network and length agree.
subnet_match(e, op, x) ==
  YesNo((/\ address_equal(subnet(e).network, subnet(x).network)
         /\ subnet(e).length = subnet(x).length) <=> (op = "=="))

\* A port lookup that compares the number alone.
port_match_number(e, op, x) ==
  YesNo(IF op = "!=" THEN port(e).number # port(x).number
        ELSE compare(port(e).number, op, port(x).number))

\* port_index::lookup_impl: the number relates to that of the operand,
\* and the protocol is the same unless that of the operand is unknown.
port_match(e, op, x) ==
  YesNo(/\ IF op = "!=" THEN port(e).number # port(x).number
           ELSE compare(port(e).number, op, port(x).number)
        /\ port(x).type # "unknown" => port(e).type = port(x).type)

\* Whether lookup_impl(op, x) of the index fails: the operand has another
\* type, or the index does not support the operator. The port index
\* answers before it looks at the operand while its offset() is 0.
lookup_impl_error(op, x) ==
  /\ ~(vi_kind = "port" /\ offset = 0)
  /\ \/ x.kind # vi_kind /\ ~(vi_kind = "address" /\ x.kind = "subnet")
     \/ vi_kind = "address" /\ x.kind = "subnet"
          /\ (op # "in" \/ subnet(x).length = 0)
     \/ vi_kind \in {"address", "subnet"} /\ x.kind = vi_kind
          /\ op \notin {"==", "!="}
     \/ vi_kind = "string" /\ op \notin {"==", "!=", "ni"}

\* The results lookup_impl(op, x) can have.
lookup_impl(op, x) ==
  CASE vi_kind = "count" -> bmi_lookup(op, x)
    [] vi_kind = "port" /\ offset = 0 -> {<<>>}
    [] OTHER ->
         Bitmaps(Len(bmi_),
                 LAMBDA i :
                   IF bmi_[i].kind = "skip" THEN "free"
                   ELSE CASE vi_kind = "string" /\ op = "ni" ->
                               string_ni(bmi_[i], x)
                          [] vi_kind = "string" -> string_match(bmi_[i], op, x)
                          [] vi_kind = "address" /\ op = "in" ->
                               address_in(bmi_[i], x)
                          [] vi_kind = "address" ->
                               address_match(bmi_[i], op, x)
                          [] vi_kind = "subnet" -> subnet_match(bmi_[i], op, x)
                          [] vi_kind = "port" -> port_match(bmi_[i], op, x))

\* A lookup that masks the result and leaves the nils in.
lookup_unfiltered(result) == bitmap_and(result, mask_)

\* The result of lookup for a non-nil operand.
lookup_filtered(result) == bitmap_and(bitmap_minus(result, none_), mask_)

\* value_index::lookup(op, x)
lookup(op, x) ==
  IF x.kind = "nil"
    THEN CASE op = "==" -> {[ok |-> TRUE, bits |-> bitmap_and(none_, mask_)]}
           [] op = "!=" ->
                {[ok |-> TRUE, bits |-> bitmap_and(bitmap_not(none_), mask_)]}
           [] OTHER -> {[ok |-> FALSE, bits |-> <<>>]}
    ELSE IF lookup_impl_error(op, x)
      THEN {[ok |-> FALSE, bits |-> <<>>]}
      ELSE {[ok |-> TRUE, bits |-> lookup_filtered(result)] :
              result \in lookup_impl(op, x)}

\* A call of value_index::lookup(op, x)
value_index_lookup(op, x) ==
  /\ vi_query' = [kind |-> "lookup", op |-> op, x |-> x]
  /\ vi_result' \in lookup(op, x)
  /\ UNCHANGED <<mask_, none_, bmi_, vi_kind, vi_init, vi_appended>>

InitVI ==
  /\ mask_ = <<>>
  /\ none_ = <<>>
  /\ bmi_ = <<>>
  /\ vi_kind \in Kinds
  /\ vi_init = FALSE
  /\ vi_appended = <<>>
  /\ vi_query = [kind |-> "none", op |-> "", x |-> NilData]
  /\ vi_result = [ok |-> TRUE, bits |-> <<>>]

\* ------------------------------------------------------------------------
\* The segment
\* ------------------------------------------------------------------------
MaxBase == 2
MaxSegEvents == 3
MaxStore == 2
MaxChunkEvents == 2
MaxBytes == 2
NumEvents == 2

Events == 1..NumEvents

\* The size of a chunk in bytes: one unit per event.
compressed_bytes(c) == Len(c)

\* The events of a sequence of chunks, in order.
RECURSIVE Flat(_)
Flat(cs) == IF cs = <<>> THEN <<>> ELSE Head(cs) \o Flat(Tail(cs))

\* A segment that takes every chunk.
segment_append_always(st, c) == TRUE

\* segment::append on a segment st = [n, bytes, chunks]: whether it takes
\* the chunk, and the segment afterwards.
segment_append_ok(st, c) ==
  ~(max_bytes_ > 0 /\ st.bytes + compressed_bytes(c) > max_bytes_)

segment_append(st, c) ==
  IF segment_append_ok(st, c)
    THEN [n |-> st.n + Len(c), bytes |-> st.bytes + compressed_bytes(c),
          chunks |-> Append(st.chunks, c)]
    ELSE st

\* segment::writer::flush on a writer w = [chunk, writer_]: the segment and
\* the writer afterwards.
writer_flush(st, w) ==
  IF w.chunk = <<>> THEN [st |-> st, w |-> w]
  ELSE IF ~segment_append_ok(st, w.chunk)
    THEN [st |-> st, w |-> [w EXCEPT !.writer_ = FALSE]]
    ELSE [st |-> segment_append(st, w.chunk),
          w |-> [chunk |-> <<>>, writer_ |-> TRUE]]

\* The component writes of an event to the chunk: the name, the timestamp
\* and the vector of values; failing names the one that fails, "none" when
\* all succeed.
Components == {"name", "timestamp", "values"}

\* What a chunk holds of an event whose vector of values was written
\* without its name or timestamp.
Corrupt == NumEvents + 1

\* A store that succeeds when all three writes do.
store_success_all(failing) == failing = "none"

\* The value of success in segment::writer::store: the result of the
\* first two writes; the third write is a statement of its own.
store_success(failing) == failing \notin {"name", "timestamp"}

\* segment::writer::store: the chunk counts an element when the vector of
\* values is written.
writer_store(w, e, failing) ==
  [ok |-> store_success(failing),
   w |-> IF failing = "values" THEN w
         ELSE [w EXCEPT !.chunk =
                 Append(@, IF failing = "none" THEN e ELSE Corrupt)]]

\* segment::writer::write: whether the event was written, the segment and
\* the writer afterwards.
writer_write(st, w, e, max_events_per_chunk, failing) ==
  IF ~w.writer_ THEN [ok |-> FALSE, st |-> st, w |-> w]
  ELSE LET s1 == writer_store(w, e, failing)
           w1 == s1.w
       IN IF ~s1.ok THEN [ok |-> FALSE, st |-> st, w |-> w1]
          ELSE IF max_events_per_chunk > 0
                    /\ Len(w1.chunk) % max_events_per_chunk = 0
            THEN LET f == writer_flush(st, w1)
                 IN [ok |-> TRUE, st |-> f.st, w |-> f.w]
            ELSE [ok |-> TRUE, st |-> st, w |-> w1]

\* The loop of segment::store from event i on, fails[i] naming the write
\* of event i that fails; the writer is flushed when it goes out of scope.
RECURSIVE store_loop(_, _, _, _, _, _)
store_loop(st, w, v, i, max_events_per_chunk, fails) ==
  IF i > Len(v) THEN [st |-> writer_flush(st, w).st, k |-> Len(v)]
  ELSE LET r == writer_write(st, w, v[i], max_events_per_chunk, fails[i])
       IN IF ~r.ok THEN [st |-> writer_flush(r.st, r.w).st, k |-> i - 1]
          ELSE store_loop(r.st, r.w, v, i + 1, max_events_per_chunk, fails)

\* segment::store(v, max_events_per_chunk) with the given outcomes of the
\* writes to the chunk.
segment_store_with(v, max_events_per_chunk, fails) ==
  store_loop([n |-> n_, bytes |-> occupied_bytes_, chunks |-> chunks_],
             [chunk |-> <<>>, writer_ |-> TRUE], v, 1, max_events_per_chunk,
             fails)

\* segment::store(v, max_events_per_chunk) when every write to the chunk
\* succeeds.
segment_store(v, max_events_per_chunk) ==
  segment_store_with(v, max_events_per_chunk, [i \in 1..Len(v) |-> "none"])

\* A reader is [id_, chunk_idx_, rd, used, ub]: rd is the index of the chunk
\* that reader_ reads (counted from 0, NoChunk when reader_ is null), used
\* the number of events it has consumed of it, ub tells that the reader
\* indexed chunks_ out of its range.
NoChunk == 0 - 1

\* segment::reader::reader
reader_new ==
  [id_ |-> base_, chunk_idx_ |-> 0,
   rd |-> IF chunks_ = <<>> THEN NoChunk ELSE 0, used |-> 0, ub |-> FALSE]

available(r) == Len(chunks_[r.rd + 1]) - r.used

NoEvent == 0

\* segment::reader::load: the next event of the chunk, which carries id_
\* when that is positive.
reader_load(r) ==
  [ok |-> TRUE,
   ev |-> chunks_[r.rd + 1][r.used + 1],
   id |-> IF r.id_ > 0 THEN r.id_ ELSE 0,
   r |-> [r EXCEPT !.used = @ + 1,
                   !.id_ = IF @ > 0 THEN @ + 1 ELSE @]]

ReadFailed(r) == [ok |-> FALSE, ev |-> NoEvent, id |-> 0, r |-> r]

\* segment::reader::read
RECURSIVE reader_read(_)
reader_read(r) ==
  IF r.rd = NoChunk \/ r.ub THEN ReadFailed(r)
  ELSE IF available(r) = 0
    THEN IF r.chunk_idx_ + 1 = Len(chunks_)
           THEN ReadFailed([r EXCEPT !.chunk_idx_ = @ + 1])
           ELSE IF r.chunk_idx_ + 1 > Len(chunks_)
             THEN ReadFailed([r EXCEPT !.ub = TRUE])
             ELSE reader_read([r EXCEPT !.chunk_idx_ = @ + 1,
                                        !.rd = r.chunk_idx_ + 1,
                                        !.used = 0])
    ELSE reader_load(r)

\* The backward branch of seek: the chunk that holds id, found from the
\* first chunk on, and the id of its first event.
RECURSIVE seek_rewind(_, _, _)
seek_rewind(i, id0, id) ==
  IF i + 1 >= Len(chunks_) \/ id0 + Len(chunks_[i + 1]) > id
    THEN [chk |-> i, id_ |-> id0]
    ELSE seek_rewind(i + 1, id0 + Len(chunks_[i + 1]), id)

\* The forward branch of seek: skips whole chunks.
RECURSIVE seek_forward(_, _, _)
seek_forward(r, elements, id) ==
  IF r.chunk_idx_ < Len(chunks_) /\ r.id_ + elements < id
    THEN IF r.chunk_idx_ + 1 >= Len(chunks_)
           THEN [r EXCEPT !.ub = TRUE]
           ELSE seek_forward([r EXCEPT !.id_ = @ + elements,
                                       !.chunk_idx_ = @ + 1,
                                       !.rd = NoChunk],
                             Len(chunks_[r.chunk_idx_ + 2]), id)
    ELSE IF r.rd = NoChunk
      THEN [r EXCEPT !.rd = r.chunk_idx_, !.used = 0]
      ELSE r

\* The last loop of seek: reads events until id_ reaches id.
RECURSIVE seek_skip(_, _)
seek_skip(r, id) ==
  IF r.ub THEN [ok |-> FALSE, r |-> r]
  ELSE IF r.id_ < id
    THEN LET x == reader_read(r)
         IN IF ~x.ok THEN [ok |-> FALSE, r |-> x.r] ELSE seek_skip(x.r, id)
    ELSE [ok |-> TRUE, r |-> r]

\* The check of seek that a segment has ids.
seek_has_ids == base_ # 0

\* segment::reader::seek
reader_seek(r, id) ==
  IF r.rd = NoChunk THEN [ok |-> FALSE, r |-> r]
  ELSE IF ~seek_has_ids THEN [ok |-> FALSE, r |-> r]
  ELSE IF id < base_ \/ id >= base_ + n_ THEN [ok |-> FALSE, r |-> r]
  ELSE IF id < r.id_
    THEN LET w == seek_rewind(0, base_, id)
         IN seek_skip([r EXCEPT !.id_ = w.id_, !.rd = w.chk, !.used = 0], id)
    ELSE seek_skip(seek_forward(r, available(r), id), id)

\* segment::load(id): nothing, or the event and the id it carries.
segment_load(id) ==
  LET s == reader_seek(reader_new, id)
  IN IF ~s.ok THEN [found |-> FALSE, ev |-> NoEvent, id |-> 0]
     ELSE LET x == reader_read(s.r)
          IN IF ~x.ok THEN [found |-> FALSE, ev |-> NoEvent, id |-> 0]
             ELSE [found |-> TRUE, ev |-> x.ev, id |-> x.id]

SegLast(op, arg, ret) == [op |-> op, arg |-> arg, ret |-> ret]

NoLoad == [found |-> FALSE, ev |-> NoEvent, id |-> 0]

InitSeg ==
  /\ base_ = 0
  /\ n_ = 0
  /\ occupied_bytes_ = 0
  /\ chunks_ = <<>>
  /\ max_bytes_ \in {0, MaxBytes}
  /\ seg_last = SegLast("none", 0, NoLoad)

\* segment::base(id)
SegBase(id) ==
  /\ base_' = id
  /\ seg_last' = SegLast("base", id, NoLoad)
  /\ UNCHANGED <<n_, occupied_bytes_, chunks_, max_bytes_>>

\* segment::store(v, max_events_per_chunk)
SegStore(v, max_events_per_chunk) ==
  /\ n_ + Len(v) <= MaxSegEvents
  /\ LET r == segment_store(v, max_events_per_chunk)
     IN /\ n_' = r.st.n
        /\ occupied_bytes_' = r.st.bytes
        /\ chunks_' = r.st.chunks
        /\ seg_last' = SegLast("store", r.k, NoLoad)
  /\ UNCHANGED <<base_, max_bytes_>>

\* segment::store(v, max_events_per_chunk) during which the write of one
\* component of the event v[at] fails.
SegStoreFailing(v, max_events_per_chunk, at, what) ==
  /\ n_ + Len(v) <= MaxSegEvents
  /\ LET fails == [i \in 1..Len(v) |-> IF i = at THEN what ELSE "none"]
         r == segment_store_with(v, max_events_per_chunk, fails)
     IN /\ n_' = r.st.n
        /\ occupied_bytes_' = r.st.bytes
        /\ chunks_' = r.st.chunks
        /\ seg_last' =
             SegLast("store_failing", [at |-> at, what |-> what],
                     [found |-> FALSE, ev |-> NoEvent, id |-> r.k])
  /\ UNCHANGED <<base_, max_bytes_>>

\* segment::magic, the bytes "VAST", and segment::version.
magic == 1447121748
version == 1

NumSegmentIds == 2
Compressions == {"null", "lz4"}

\* The members of a segment that was just constructed with the nil id.
EmptySegment ==
  [id_ |-> 0, compression_ |-> "null", base_ |-> 0, n_ |-> 0,
   occupied_bytes_ |-> 0, chunks_ |-> <<>>]

\* segment::serialize: the values written to the sink, in order.
serialize(x) ==
  <<magic, version, x.id_, x.compression_, x.base_, x.n_, x.occupied_bytes_,
    x.chunks_>>

\* A deserialization that reads the event count before the base.
read_members_swapped(x, source) ==
  [x EXCEPT !.id_ = source[3], !.compression_ = source[4], !.n_ = source[5],
            !.base_ = source[6], !.occupied_bytes_ = source[7],
            !.chunks_ = source[8]]

\* The reads of segment::deserialize after the checks, in order.
read_members(x, source) ==
  [x EXCEPT !.id_ = source[3], !.compression_ = source[4], !.base_ = source[5],
            !.n_ = source[6], !.occupied_bytes_ = source[7],
            !.chunks_ = source[8]]

\* segment::deserialize into the segment x: whether it returned without an
\* exception, and the segment afterwards.
deserialize(x, source) ==
  IF source[1] # magic THEN [ok |-> FALSE, seg |-> x]
  ELSE IF source[2] > version THEN [ok |-> FALSE, seg |-> x]
  ELSE [ok |-> TRUE, seg |-> read_members(x, source)]

\* The segment is serialized with the id and the compression it was
\* constructed with, and a stream that starts with m and v and continues
\* like the serialized segment is deserialized into a new segment.
SegSerialize(id, method, m, v) ==
  /\ LET x == [id_ |-> id, compression_ |-> method, base_ |-> base_,
               n_ |-> n_, occupied_bytes_ |-> occupied_bytes_,
               chunks_ |-> chunks_]
         source == [serialize(x) EXCEPT ![1] = m, ![2] = v]
         r == deserialize(EmptySegment, source)
     IN seg_last' =
          SegLast("deserialize", [seg |-> x, magic |-> m, version |-> v],
                  [found |-> r.ok, ev |-> r.seg, id |-> 0])
  /\ UNCHANGED <<base_, n_, occupied_bytes_, chunks_, max_bytes_>>

\* segment::append(c)
SegAppend(c) ==
  /\ n_ + Len(c) <= MaxSegEvents
  /\ LET st == [n |-> n_, bytes |-> occupied_bytes_, chunks |-> chunks_]
         r == segment_append(st, c)
     IN /\ n_' = r.n
        /\ occupied_bytes_' = r.bytes
        /\ chunks_' = r.chunks
        /\ seg_last' =
             SegLast("append", c,
                     [found |-> segment_append_ok(st, c), ev |-> NoEvent,
                      id |-> 0])
  /\ UNCHANGED <<base_, max_bytes_>>

\* segment::load(id)
SegLoad(id) ==
  /\ seg_last' = SegLast("load", id, segment_load(id))
  /\ UNCHANGED <<base_, n_, occupied_bytes_, chunks_, max_bytes_>>

\* The reads of a reader until one fails: the events and the ids they
\* carry.
RECURSIVE read_all(_)
read_all(r) ==
  LET x == reader_read(r)
  IN IF ~x.ok THEN <<>>
     ELSE <<[ev |-> x.ev, id |-> x.id]>> \o read_all(x.r)

\* The seeks of one reader to the ids of a sequence, each but the last
\* followed by `between` reads: what the seeks return and the reader.
RECURSIVE seek_calls(_, _, _)
seek_calls(r, ids, between) ==
  IF ids = <<>> THEN [oks |-> <<>>, r |-> r]
  ELSE LET s == reader_seek(r, Head(ids))
           t == IF between = 1 /\ Len(ids) > 1 THEN reader_read(s.r).r
                ELSE s.r
           rest == seek_calls(t, Tail(ids), between)
       IN [oks |-> <<s.ok>> \o rest.oks, r |-> rest.r]

MaxSeeks == 2

\* A reader of the segment seeks the ids one after the other and then
\* reads to the end.
SegSeek(ids, between) ==
  /\ LET c == seek_calls(reader_new, ids, between)
     IN seg_last' = SegLast("seek", ids,
                            [oks |-> c.oks, reads |-> read_all(c.r)])
  /\ UNCHANGED <<base_, n_, occupied_bytes_, chunks_, max_bytes_>>

\* ------------------------------------------------------------------------
\* The partitions of the index: rollover and persisting
\* ------------------------------------------------------------------------
MaxPartitionSize == 2
MaxIngest == 5
MaxPartIndexers == 2

\* The partitions created so far.
Created == DOMAIN part_size

\* The partitions in the unpersisted list.
Unpersisted == {unpersisted[i].id : i \in 1..Len(unpersisted)}

\* The position of a partition in the unpersisted list (find_if), 0 if it
\* is not there.
unpersisted_find(id) ==
  IF id \in Unpersisted
    THEN MinOf({i \in 1..Len(unpersisted) : unpersisted[i].id = id})
    ELSE 0

\* fac: the unpersisted list once the active partition, if any, is stored
\* with the number of its indexers.
fac_unpersisted ==
  IF active # Nil
    THEN Append(unpersisted,
                [id |-> active, count |-> part_indexers[active]])
    ELSE unpersisted

\* fac: one persist request to each indexer of the active partition.
fac_requests ==
  IF active # Nil
    THEN persist_requests \cup
           {[part |-> active, indexer |-> i] :
              i \in 1..part_indexers[active]}
    ELSE persist_requests

\* A factory that goes on with the partition it has.
fac_keep_active == IF active # Nil THEN active ELSE next_pid

\* fac: the new active partition.
fac_active == next_pid

\* The state of the partitions after a call of fac, the callback that the
\* stream stage calls for a new partition; the partition starts at event
\* id base.
after_fac(base) ==
  LET id == fac_active
  IN [unpersisted |-> fac_unpersisted,
      requests |-> fac_requests,
      active |-> id,
      next_pid |-> IF id = next_pid THEN next_pid + 1 ELSE next_pid,
      indexers |-> [p \in Created \cup {id} |->
                      IF p \in Created THEN part_indexers[p] ELSE 0],
      base |-> [p \in Created \cup {id} |->
                  IF p \in Created THEN part_base[p] ELSE base],
      size |-> [p \in Created \cup {id} |->
                  IF p \in Created THEN part_size[p] ELSE 0],
      acked |-> [p \in DOMAIN persist_acked \cup
                   (IF active # Nil THEN {active} ELSE {}) |->
                   IF p \in DOMAIN persist_acked THEN persist_acked[p]
                   ELSE 0]]

\* The stream stage asks for a new partition when an event arrives and
\* there is no active partition or the active partition is full.
partition_full ==
  active = Nil \/ part_size[active] >= max_partition_size

\* The stream stage handles one event: it goes to the active partition,
\* after a rollover when that is full; the events of a layout that is new
\* to the partition bring new indexers (indexers is their number after
\* the event).
PartIngest(indexers) ==
  /\ num_ingested < MaxIngest
  /\ LET st == IF partition_full THEN after_fac(num_ingested)
               ELSE [unpersisted |-> unpersisted,
                     requests |-> persist_requests,
                     active |-> active,
                     next_pid |-> next_pid,
                     indexers |-> part_indexers,
                     base |-> part_base,
                     size |-> part_size,
                     acked |-> persist_acked]
     IN /\ indexers >= st.indexers[st.active]
        /\ unpersisted' = st.unpersisted
        /\ persist_requests' = st.requests
        /\ active' = st.active
        /\ next_pid' = st.next_pid
        /\ part_indexers' = [st.indexers EXCEPT ![st.active] = indexers]
        /\ part_base' = st.base
        /\ part_size' = [st.size EXCEPT ![st.active] = @ + 1]
        /\ persist_acked' = st.acked
  /\ num_ingested' = num_ingested + 1
  /\ UNCHANGED <<max_partition_size, lru_loaded>>

\* A partition that is persisted at the first response.
persist_done_first(count) == TRUE

\* The response handler: --i->second == 0
persist_done(count) == count - 1 = 0

\* The response of an indexer to a persist request is handled.
PersistAck(r) ==
  /\ r \in persist_requests
  /\ persist_requests' = persist_requests \ {r}
  /\ LET i == unpersisted_find(r.part)
     IN IF i = 0
          THEN UNCHANGED <<unpersisted, persist_acked>>
          ELSE /\ unpersisted' =
                    IF persist_done(unpersisted[i].count)
                      THEN SubSeq(unpersisted, 1, i - 1)
                             \o SubSeq(unpersisted, i + 1, Len(unpersisted))
                      ELSE [unpersisted EXCEPT ![i].count = @ - 1]
               /\ persist_acked' = [persist_acked EXCEPT ![r.part] = @ + 1]
  /\ UNCHANGED <<max_partition_size, active, next_pid, part_indexers,
                 part_base, part_size, num_ingested, lru_loaded>>

InitPart ==
  /\ max_partition_size \in 1..MaxPartitionSize
  /\ active = Nil
  /\ unpersisted = <<>>
  /\ next_pid = 1
  /\ part_indexers = <<>>
  /\ part_base = <<>>
  /\ part_size = <<>>
  /\ persist_requests = {}
  /\ persist_acked = <<>>
  /\ num_ingested = 0
  /\ lru_loaded = {}

\* A factory that knows the active partition alone.
partition_factory_active(id) ==
  IF active # Nil /\ active = id THEN "active" ELSE "disk"

\* index_state::partition_factory::operator(): where the partition with
\* the id comes from.
partition_factory(id) ==
  IF active # Nil /\ active = id THEN "active"
  ELSE IF unpersisted_find(id) # 0 THEN "unpersisted"
  ELSE "disk"

\* lru_partitions.get_or_add(id): the cache calls the factory when the id
\* is not resident.
PartResolve(id) ==
  /\ lru_partitions' = lru_get_or_add(lru_partitions, in_mem_partitions, id)
  /\ lru_loaded' =
       (lru_loaded \cup
          (IF ~lru_contains(lru_partitions, id)
                /\ partition_factory(id) = "disk"
             THEN {id} ELSE {}))
         \cap Range(lru_get_or_add(lru_partitions, in_mem_partitions, id))
  /\ UNCHANGED <<max_partition_size, active, unpersisted, next_pid,
                 part_indexers, part_base, part_size, persist_requests,
                 persist_acked, num_ingested>>

\* ------------------------------------------------------------------------
\* The segment manager
\* ------------------------------------------------------------------------
MaxMgrCapacity == 2
MaxMgrMailbox == 3

SegmentIds == 1..NumSegmentIds

\* The keys of the cache.
cache_keys(cache) == {cache[i].key : i \in 1..Len(cache)}

\* lru_cache::insert: the entry becomes the most recently used one, the
\* least recently used one is dropped when the capacity is exceeded.
cache_insert(cache, cap, id, seg) ==
  LET grown == SelectSeq(cache, LAMBDA x : x.key # id)
                 \o <<[key |-> id, seg |-> seg]>>
  IN IF Len(grown) > cap THEN Tail(grown) ELSE grown

\* A miss function that reads the file of the least id.
on_miss_first(id) == files[MinOf(DOMAIN files)]

\* segment_manager::on_miss: the segment read from the file dir_ / id.
on_miss(id) == files[id]

\* lru_cache::retrieve: the segment of a resident id, which becomes the
\* most recently used one; for another id the result of the miss function,
\* which is inserted.
cache_retrieve(cache, cap, id) ==
  IF id \in cache_keys(cache)
    THEN LET seg == (CHOOSE x \in Range(cache) : x.key = id).seg
         IN [seg |-> seg, loaded |-> FALSE,
             cache |-> cache_insert(cache, cap, id, seg)]
    ELSE LET seg == on_miss(id)
         IN [seg |-> seg, loaded |-> TRUE,
             cache |-> cache_insert(cache, cap, id, seg)]

\* segment_manager::store_segment
store_segment(id) ==
  /\ id \notin segment_files_
  /\ segment_files_' = segment_files_ \cup {id}
  /\ files' = [f \in DOMAIN files \cup {id} |->
                 IF f = id THEN [id_ |-> id] ELSE files[f]]
  /\ cache_' = cache_insert(cache_, mgr_capacity, id, [id_ |-> id])
  /\ mgr_last' = [op |-> "store", id |-> id, seg |-> [id_ |-> id],
                  loaded |-> FALSE]

\* The handler of (atom("retrieve"), id)
retrieve(id) ==
  /\ id \in segment_files_
  /\ LET r == cache_retrieve(cache_, mgr_capacity, id)
     IN /\ cache_' = r.cache
        /\ mgr_last' = [op |-> "retrieve", id |-> id, seg |-> r.seg,
                        loaded |-> r.loaded]
  /\ UNCHANGED <<segment_files_, files>>

\* A segment that was not sent before is sent to the manager.
MgrSendStore(id) ==
  /\ Len(mgr_mailbox) < MaxMgrMailbox
  /\ id \notin segment_files_
  /\ \A i \in 1..Len(mgr_mailbox) : mgr_mailbox[i] # [op |-> "store", id |-> id]
  /\ mgr_mailbox' = Append(mgr_mailbox, [op |-> "store", id |-> id])
  /\ UNCHANGED <<mgr_capacity, segment_files_, cache_, files, mgr_last,
                 dir_tree, scan_stack, scan_status>>

\* A client asks for a stored segment.
MgrSendRetrieve(id) ==
  /\ Len(mgr_mailbox) < MaxMgrMailbox
  /\ id \in segment_files_
  /\ mgr_mailbox' = Append(mgr_mailbox, [op |-> "retrieve", id |-> id])
  /\ UNCHANGED <<mgr_capacity, segment_files_, cache_, files, mgr_last,
                 dir_tree, scan_stack, scan_status>>

\* The manager handles the next message of its mailbox.
MgrHandle ==
  /\ mgr_mailbox # <<>>
  /\ mgr_mailbox' = Tail(mgr_mailbox)
  /\ \/ Head(mgr_mailbox).op = "store" /\ store_segment(Head(mgr_mailbox).id)
     \/ Head(mgr_mailbox).op = "retrieve" /\ retrieve(Head(mgr_mailbox).id)
  /\ UNCHANGED <<mgr_capacity, dir_tree, scan_stack, scan_status>>

\* The manager after its construction on a new directory.
InitMgr ==
  /\ mgr_capacity \in 1..MaxMgrCapacity
  /\ segment_files_ = {}
  /\ cache_ = <<>>
  /\ files = <<>>
  /\ mgr_mailbox = <<>>
  /\ mgr_last = [op |-> "none", id |-> 0, seg |-> [id_ |-> 0],
                 loaded |-> FALSE]
  /\ dir_tree = <<>>
  /\ scan_stack = <<>>
  /\ scan_status = "done"

\* ------------------------------------------------------------------------
\* The segment manager: the scan of an existing directory
\* ------------------------------------------------------------------------
MaxEntries == 3
MaxStack == 3

\* The names of the files and of the one subdirectory a directory tree can
\* have; dir_ itself is Root.
Root == "dir_"
FileNames == {"a", "b"}
SubDir == "sub"
SubFile == "c"

\* The directories dir_ can be: up to MaxEntries entries without a name
\* twice, files and at most one subdirectory, which holds at most one file.
DirEntries ==
  {e \in SeqsOf(FileNames \cup {SubDir}, 0, MaxEntries) :
     \A i, j \in 1..Len(e) : i # j => e[i] # e[j]}

DirTrees ==
  {(Root :> e) @@ (SubDir :> sub) :
     e \in DirEntries, sub \in {<<>>, <<SubFile>>}}

\* fs::is_directory
is_directory(p) == p = SubDir

\* The directory whose entries scan(directory) visits:
\* fs::each_dir_entry(dir_, ...).
each_dir_entry_of(directory) == Root

\* One step of segment_manager::scan: the call on top of the stack is
\* done with its entries and returns, or visits its next entry: it calls
\* scan for a directory and puts a file into segment_files_.
ScanStep ==
  /\ scan_status = "scanning"
  /\ LET call == Last(scan_stack)
         entries == dir_tree[each_dir_entry_of(call.directory)]
         visited == [scan_stack EXCEPT ![Len(scan_stack)].at = @ + 1]
     IN IF call.at > Len(entries)
          THEN /\ scan_stack' = Front(scan_stack)
               /\ scan_status' = IF Len(scan_stack) = 1 THEN "done"
                                 ELSE "scanning"
               /\ UNCHANGED segment_files_
          ELSE LET p == entries[call.at]
               IN IF is_directory(p)
                    THEN /\ IF Len(scan_stack) = MaxStack
                              THEN /\ scan_status' = "overflow"
                                   /\ scan_stack' = visited
                              ELSE /\ scan_status' = "scanning"
                                   /\ scan_stack' =
                                        Append(visited,
                                               [directory |-> p, at |-> 1])
                         /\ UNCHANGED segment_files_
                    ELSE /\ segment_files_' = segment_files_ \cup {p}
                         /\ scan_stack' = visited
                         /\ UNCHANGED scan_status
  /\ UNCHANGED <<mgr_capacity, cache_, files, mgr_mailbox, mgr_last,
                 dir_tree>>

\* The constructor of the manager on an existing directory has called
\* scan(dir_).
InitScan ==
  /\ mgr_capacity = 1
  /\ segment_files_ = {}
  /\ cache_ = <<>>
  /\ files = <<>>
  /\ mgr_mailbox = <<>>
  /\ mgr_last = [op |-> "none", id |-> 0, seg |-> [id_ |-> 0],
                 loaded |-> FALSE]
  /\ dir_tree \in DirTrees
  /\ scan_stack = <<[directory |-> Root, at |-> 1]>>
  /\ scan_status = "scanning"

\* ------------------------------------------------------------------------
\* The default table slice builder (default_table_slice_builder.cpp)
\* ------------------------------------------------------------------------
\* The number of calls on one builder.
MaxCalls == 6

\* The flattened layout of the builder: the type of each column.
builder_layout == <<"count", "string">>

\* The data appended to the builder.
BuilderData ==
  {[kind |-> "count", val |-> 1], [kind |-> "count", val |-> 2],
   [kind |-> "string", val |-> 1]}

\* type_check(t, x) for the data above.
type_check(t, x) == x.kind = t

\* vector(layout().fields.size()): a row of nil values.
nil_row == [i \in 1..Len(builder_layout) |-> NilData]

\* The null slice_ and a slice_ with the rows xs.
null_slice == [null |-> TRUE, xs_ |-> <<>>]

new_slice(xs) == [null |-> FALSE, xs_ |-> xs]

\* What a call returns: a bool, a table slice, or nothing when the call
\* does not return.
returned_bool(b) ==
  [kind |-> "bool", ok |-> b, xs_ |-> <<>>, rows_ |-> 0, columns_ |-> 0]

returned_slice(xs) ==
  [kind |-> "slice", ok |-> TRUE, xs_ |-> xs, rows_ |-> Len(xs),
   columns_ |-> Len(builder_layout)]

no_return(kind) ==
  [kind |-> kind, ok |-> FALSE, xs_ |-> <<>>, rows_ |-> 0, columns_ |-> 0]

\* default_table_slice_builder::rows.
builder_rows == IF slice_.null THEN 0 ELSE Len(slice_.xs_)

\* default_table_slice_builder::append, with the lazy_init it starts with.
builder_append(x) ==
  LET init == slice_.null
      xs   == IF init THEN <<>> ELSE slice_.xs_
      row  == IF init THEN nil_row ELSE row_
      col  == IF init THEN 0 ELSE col_
  IN IF ~type_check(builder_layout[col + 1], x)
     THEN /\ slice_' = new_slice(xs)
          /\ row_' = row
          /\ col_' = col
          /\ tsb_last' = [op |-> "append", calls |-> tsb_last.calls + 1,
                          ret |-> returned_bool(FALSE)]
     ELSE LET filled == [row EXCEPT ![col + 1] = x]
          IN /\ IF col + 1 = Len(builder_layout)
                THEN /\ slice_' = new_slice(Append(xs, filled))
                     /\ row_' = nil_row
                     /\ col_' = 0
                ELSE /\ slice_' = new_slice(xs)
                     /\ row_' = filled
                     /\ col_' = col + 1
             /\ tsb_last' = [op |-> "append", calls |-> tsb_last.calls + 1,
                             ret |-> returned_bool(TRUE)]

\* default_table_slice_builder::finish.  With a null slice_ the call
\* dereferences a null pointer: the behaviour is undefined, and the call
\* either ends the program or returns the null pointer that release()
\* yields.  The row that was moved into the slice is left empty.
builder_finish ==
  IF slice_.null
  THEN /\ \E outcome \in {"crash", "nullptr"} :
            tsb_last' = [op |-> "finish", calls |-> tsb_last.calls + 1,
                         ret |-> no_return(outcome)]
       /\ UNCHANGED <<slice_, row_, col_>>
  ELSE LET xs == IF col_ # 0 THEN Append(slice_.xs_, row_) ELSE slice_.xs_
       IN /\ slice_' = null_slice
          /\ row_' = IF col_ # 0 THEN <<>> ELSE row_
          /\ UNCHANGED col_
          /\ tsb_last' = [op |-> "finish", calls |-> tsb_last.calls + 1,
                          ret |-> returned_slice(xs)]

\* A call on the builder, while the program runs.
BuilderAppend(x) ==
  /\ tsb_last.calls < MaxCalls
  /\ tsb_last.ret.kind # "crash"
  /\ builder_append(x)

BuilderFinish ==
  /\ tsb_last.calls < MaxCalls
  /\ tsb_last.ret.kind # "crash"
  /\ builder_finish

\* The builder after its construction.
InitBuilder ==
  /\ slice_ = null_slice
  /\ row_ = nil_row
  /\ col_ = 0
  /\ tsb_last = [op |-> "none", calls |-> 0, ret |-> no_return("none")]

\* ------------------------------------------------------------------------
\* Specification of the scheduler
\* ------------------------------------------------------------------------
Init ==
  /\ InitSched
  /\ InitMeta
  /\ InitVI
  /\ vi_kind = "count"
  /\ InitSeg
  /\ max_bytes_ = 0
  /\ InitPart
  /\ InitMgr
  /\ InitBuilder
  /\ mgr_capacity = 1
  /\ max_partition_size = 1

IndexStep ==
  /\ \/ HandleWorker
     \/ HandleLookupAnonymous
     \/ HandleLookupEmpty
     \/ HandleLookup
     \/ HandleContinueDrop
     \/ HandleContinueIgnored
     \/ HandleContinue
  /\ UNCHANGED <<metaVars, viVars, segVars, partVars, mgrVars, builderVars>>

CollectorStep ==
  /\ \/ \E w \in Workers : CollectorQuery(w)
     \/ \E w \in Workers : \E r \in requests[w] : \E sub \in SUBSET Ids :
          CollectorReply(w, r, sub)
  /\ UNCHANGED <<metaVars, viVars, segVars, partVars, mgrVars, builderVars>>

ClientStep ==
  /\ \/ \E c \in Clients \cup {Anon} : ClientLookup(c)
     \/ \E c \in Clients \cup {Anon} : \E q \in 1..(next_qid - 1) :
          \E n \in 0..MaxNum : ClientContinue(c, q, n)
  /\ UNCHANGED <<metaVars, viVars, segVars, partVars, mgrVars, builderVars>>

Next == IndexStep \/ CollectorStep \/ ClientStep

Spec == Init /\ [][Next]_vars

\* Every message is eventually handled and every INDEXER eventually replies.
FairSpec == Spec /\ WF_vars(IndexStep) /\ WF_vars(CollectorStep)

\* ------------------------------------------------------------------------
\* Specification of the meta index
\* ------------------------------------------------------------------------
InitMetaIndex ==
  /\ InitPart
  /\ InitMgr
  /\ InitBuilder
  /\ mgr_capacity = 1
  /\ max_partition_size = 1
  /\ InitMeta
  /\ InitSeg
  /\ max_bytes_ = 0
  /\ InitVI
  /\ vi_kind = "count"
  /\ InitSched
  /\ taste_partitions = 0
  /\ in_mem_partitions = 1
  /\ mailbox = <<WorkerMsg(1)>>

NextMeta ==
  /\ \/ \E partition \in MetaPartitions : \E slice \in Slices :
          MetaAdd(partition, slice)
     \/ \E expr \in Expressions : MetaLookup(expr)
  /\ UNCHANGED <<schedVars, viVars, segVars, partVars, mgrVars, builderVars>>

SpecMeta == InitMetaIndex /\ [][NextMeta]_vars

\* ------------------------------------------------------------------------
\* Specification of the value index
\* ------------------------------------------------------------------------
InitValueIndex ==
  /\ InitPart
  /\ InitMgr
  /\ InitBuilder
  /\ mgr_capacity = 1
  /\ max_partition_size = 1
  /\ InitVI
  /\ InitSeg
  /\ max_bytes_ = 0
  /\ InitMeta
  /\ InitSched
  /\ taste_partitions = 0
  /\ in_mem_partitions = 1
  /\ mailbox = <<WorkerMsg(1)>>

AppendStep ==
  \/ \E x \in IndexData : \E pos \in Positions : value_index_append(x, pos)
  \/ \E x \in IndexData : \E pos \in Positions :
       value_index_append_error(x, pos)
  \/ \E x \in IndexData : offset \in Positions /\ value_index_append_end(x)

NextVI ==
  /\ \/ AppendStep
     \/ \E op \in LookupOperators(vi_kind) : \E x \in LookupData :
          value_index_lookup(op, x)
  /\ UNCHANGED <<schedVars, metaVars, segVars, partVars, mgrVars, builderVars>>

SpecVI == InitValueIndex /\ [][NextVI]_vars

\* The appends alone: the lookups of every state are what lookup(op, x)
\* yields there.
NextAppend ==
  /\ AppendStep
  /\ UNCHANGED <<schedVars, metaVars, segVars, partVars, mgrVars, builderVars>>

SpecAppend == InitValueIndex /\ [][NextAppend]_vars

\* ------------------------------------------------------------------------
\* Specification of the segment
\* ------------------------------------------------------------------------
InitSegment ==
  /\ InitPart
  /\ InitMgr
  /\ InitBuilder
  /\ mgr_capacity = 1
  /\ max_partition_size = 1
  /\ InitSeg
  /\ InitVI
  /\ vi_kind = "count"
  /\ InitMeta
  /\ InitSched
  /\ taste_partitions = 0
  /\ in_mem_partitions = 1
  /\ mailbox = <<WorkerMsg(1)>>

NextSeg ==
  /\ \/ \E id \in 0..MaxBase : SegBase(id)
     \/ \E v \in SeqsOf(Events, 1, MaxStore) :
          \E max_events_per_chunk \in 0..MaxChunkEvents :
            SegStore(v, max_events_per_chunk)
     \/ \E c \in SeqsOf(Events, 1, MaxChunkEvents) : SegAppend(c)
     \/ \E id \in 1..NumSegmentIds : \E method \in Compressions :
          \E m \in {magic, magic + 1} :
            \E v \in {version - 1, version, version + 1} :
              SegSerialize(id, method, m, v)
     \/ \E id \in 0..(MaxBase + MaxSegEvents) : SegLoad(id)
  /\ UNCHANGED <<schedVars, metaVars, viVars, partVars, mgrVars, builderVars>>

SpecSeg == InitSegment /\ [][NextSeg]_vars

\* The segment and a reader that seeks.
NextReader ==
  /\ \/ \E id \in 0..MaxBase : SegBase(id)
     \/ \E v \in SeqsOf(Events, 1, MaxStore) :
          \E max_events_per_chunk \in 0..MaxChunkEvents :
            SegStore(v, max_events_per_chunk)
     \/ \E ids \in SeqsOf(0..(MaxBase + MaxSegEvents), 1, MaxSeeks) :
          \E between \in 0..1 : SegSeek(ids, between)
  /\ UNCHANGED <<schedVars, metaVars, viVars, partVars, mgrVars, builderVars>>

SpecReader == InitSegment /\ [][NextReader]_vars

\* The segment writer with writes to the chunk that fail.
NextWriter ==
  /\ \/ \E v \in SeqsOf(Events, 1, MaxStore) :
          \E max_events_per_chunk \in 0..MaxChunkEvents :
            SegStore(v, max_events_per_chunk)
     \/ \E v \in SeqsOf(Events, 1, MaxStore) :
          \E max_events_per_chunk \in 0..MaxChunkEvents :
            \E at \in 1..Len(v) : \E what \in Components :
              SegStoreFailing(v, max_events_per_chunk, at, what)
  /\ UNCHANGED <<schedVars, metaVars, viVars, partVars, mgrVars, builderVars>>

SpecWriter == InitSegment /\ [][NextWriter]_vars

\* ------------------------------------------------------------------------
\* Specification of the partitions
\* ------------------------------------------------------------------------
InitPartitions ==
  /\ InitPart
  /\ InitMgr
  /\ InitBuilder
  /\ mgr_capacity = 1
  /\ InitSeg
  /\ max_bytes_ = 0
  /\ InitVI
  /\ vi_kind = "count"
  /\ InitMeta
  /\ InitSched
  /\ taste_partitions = 0
  /\ in_mem_partitions = 1
  /\ mailbox = <<WorkerMsg(1)>>

IngestStep ==
  /\ \E indexers \in 0..MaxPartIndexers : PartIngest(indexers)
  /\ UNCHANGED <<schedVars, metaVars, viVars, segVars, mgrVars, builderVars>>

PersistStep ==
  /\ \E r \in persist_requests : PersistAck(r)
  /\ UNCHANGED <<schedVars, metaVars, viVars, segVars, mgrVars, builderVars>>

NextPart == IngestStep \/ PersistStep

SpecPart == InitPartitions /\ [][NextPart]_vars

\* Every indexer eventually answers a persist request.
FairPart == SpecPart /\ WF_vars(PersistStep)

\* The partitions and the cache that resolves their ids.
InitFactory ==
  /\ InitPart
  /\ InitMgr
  /\ InitBuilder
  /\ mgr_capacity = 1
  /\ InitSeg
  /\ max_bytes_ = 0
  /\ InitVI
  /\ vi_kind = "count"
  /\ InitMeta
  /\ InitSched
  /\ taste_partitions = 0
  /\ in_mem_partitions = 1
  /\ mailbox = <<WorkerMsg(1)>>

ResolveStep ==
  /\ \E id \in Created : PartResolve(id)
  /\ UNCHANGED <<taste_partitions, in_mem_partitions, idle_workers,
                 has_worker, pending, next_qid, mailbox, inbox,
                 open_requests, requests, reply, job, answered, sent,
                 cancelled, lookups_sent, continues_sent, dispatched>>
  /\ UNCHANGED <<metaVars, viVars, segVars, mgrVars, builderVars>>

NextFactory == IngestStep \/ PersistStep \/ ResolveStep

SpecFactory == InitFactory /\ [][NextFactory]_vars

\* ------------------------------------------------------------------------
\* Properties of the scheduler
\* ------------------------------------------------------------------------
\* The collectors index() spawned.
Spawned ==
  {w \in Workers :
     \/ w \in Range(idle_workers)
     \/ WorkerMsg(w) \in Range(mailbox)
     \/ job[w] # NoJob}

\* The INDEX actor handles the message at the head of its mailbox.
HeadHandled ==
  /\ has_worker /\ mailbox # <<>>
  /\ Head(mailbox).type # "worker"
  /\ mailbox' = Tail(mailbox)

\* The collector that gets the next query.
NextWorker == Last(idle_workers)

\* A query was sent to collector w in this step.
DispatchedTo(w) == Len(inbox'[w]) = Len(inbox[w]) + 1

\* The copies of results for partition p among the results collector w sent.
SentFor(w, p) == {x \in BagToSet(sent[w]) : x.part = p}

SentCount(w, p) ==
  IF SentFor(w, p) = {} THEN 0
  ELSE LET x == CHOOSE y \in SentFor(w, p) : TRUE
       IN IF Cardinality(SentFor(w, p)) > 1 THEN 2 ELSE CopiesIn(x, sent[w])

AnsweredFor(w, p) == {a \in answered[w] : a.part = p}

\* C1: a lookup with a non-empty candidate set of size hits is answered with
\* (query_id, hits, scheduled), scheduled = min(hits, taste_partitions), and
\* exactly `scheduled` of the candidates go to the worker; query_id is nil
\* and pending is unchanged iff hits <= taste_partitions, otherwise query_id
\* is a fresh id and pending[query_id] holds exactly the hits - scheduled
\* candidates that were not dispatched.
C1_TasteReply ==
  [][(HeadHandled /\ Head(mailbox).type = "lookup" /\ reply' # reply
        /\ ~reply'.error /\ reply'.hits > 0)
     => LET w == NextWorker
            j == job'[w]
            r == reply'
        IN /\ DispatchedTo(w)
           /\ Last(inbox'[w]).qm = j.qm
           /\ r.lid = Head(mailbox).lid
           /\ r.hits = Cardinality(j.candidates)
           /\ r.scheduled = Min(r.hits, taste_partitions)
           /\ DOMAIN j.qm \subseteq j.candidates
           /\ Cardinality(DOMAIN j.qm) = r.scheduled
           /\ (r.query_id = Nil) <=> (r.hits <= taste_partitions)
           /\ (r.query_id = Nil) => (pending' = pending)
           /\ (r.query_id # Nil) =>
                /\ r.query_id \notin 0..(next_qid - 1)
                /\ next_qid' > r.query_id
                /\ DOMAIN pending' = DOMAIN pending \cup {r.query_id}
                /\ \A q \in DOMAIN pending : pending'[q] = pending[q]
                /\ Range(pending'[r.query_id]) = j.candidates \ DOMAIN j.qm
                /\ Len(pending'[r.query_id]) = r.hits - r.scheduled]_vars

\* C1 witness: a lookup with more hits than taste_partitions was answered; a
\* taste went to a worker and the other candidates are pending.
C1_Witness ==
  /\ reply.lid # 0 /\ ~reply.error
  /\ taste_partitions > 0
  /\ reply.hits > taste_partitions
  /\ reply.query_id \in DOMAIN pending
  /\ Len(pending[reply.query_id]) = reply.hits - reply.scheduled

C6_OneResultPerPartition ==
  \A w \in Workers :
    (job[w] # NoJob /\ inbox[w] = <<>>) =>
      /\ \A x \in BagToSet(sent[w]) :
           x.part \in DOMAIN job[w].qm /\ x.client = job[w].client
      /\ \A p \in DOMAIN job[w].qm :
           /\ SentCount(w, p) <= 1
           /\ \A x \in SentFor(w, p) :
                /\ {a.idx : a \in AnsweredFor(w, p)} = 1..job[w].qm[p]
                /\ x.ids = UNION {a.ids : a \in AnsweredFor(w, p)}
           /\ (requests[w] = {}) => (SentCount(w, p) = 1)

\* C6 witness: a partition with two INDEXER actors, one with an empty and one
\* with a non-empty sub result, and its result at the client.
C6_Witness ==
  \E w \in Workers :
    /\ job[w] # NoJob /\ inbox[w] = <<>>
    /\ \E p \in DOMAIN job[w].qm :
         /\ job[w].qm[p] = 2
         /\ \E a, b \in AnsweredFor(w, p) : a.ids = {} /\ b.ids # {}
         /\ \E x \in SentFor(w, p) : x.ids # {}

\* C7: every worker that was sent a query registers itself again as idle
\* once the results of all partitions of its query map are sent, whatever
\* the number of partitions in the query map. As a state predicate: a
\* collector that has taken its query and awaits no INDEXER reply is idle or
\* its registration is on its way to the INDEX actor.
C7_WorkerReturns ==
  \A w \in Spawned :
    (inbox[w] = <<>> /\ requests[w] = {}) =>
      (w \in Range(idle_workers) \/ WorkerMsg(w) \in Range(mailbox))

\* C8: a lookup that arrives while no worker is idle stays queued and is
\* answered once a worker registers; every lookup is eventually answered.
C8_LookupAnswered ==
  \A l \in 1..MaxLookups :
    (\E i \in 1..Len(mailbox) :
       /\ mailbox[i].type = "lookup"
       /\ mailbox[i].lid = l
       /\ mailbox[i].client # Anon)
    ~> (reply.lid = l /\ ~reply.error)

\* C9: continue(query_id, 0) removes pending[query_id] without using up a
\* worker; once a query is dropped, no step sends a query map for it to a
\* worker, whatever continue requests follow.
C9_Cancel ==
  [][/\ (HeadHandled /\ Head(mailbox).type = "continue"
           /\ Head(mailbox).num_partitions = 0)
        => /\ Head(mailbox).query_id \notin DOMAIN pending'
           /\ \A q \in DOMAIN pending \ {Head(mailbox).query_id} :
                q \in DOMAIN pending' /\ pending'[q] = pending[q]
           /\ UNCHANGED <<idle_workers, has_worker, inbox, job>>
     /\ \A w \in Workers :
          DispatchedTo(w) =>
            (\A c \in cancelled : job'[w].query_id # c.query_id)]_vars

\* C9 witness: a query with pending candidates was dropped, and all continue
\* requests, also those sent after it, have been handled.
C9_Witness ==
  /\ \E c \in cancelled : c.dropped > 0
  /\ continues_sent = MaxContinues
  /\ mailbox = <<>>

\* C10: a lookup without candidates is answered with (nil, 0, 0); it sends
\* nothing to a worker and changes neither idle_workers nor pending.
C10_EmptyLookup ==
  [][(HeadHandled /\ Head(mailbox).type = "lookup" /\ reply' # reply
        /\ ~reply'.error /\ reply'.hits = 0)
     => /\ reply'.query_id = Nil
        /\ reply'.scheduled = 0
        /\ reply'.lid = Head(mailbox).lid
        /\ UNCHANGED <<idle_workers, has_worker, pending, next_qid, inbox,
                       lru_partitions, job>>]_vars

\* C10 witness: a lookup without candidates was answered while a worker was
\* idle and a query was pending.
C10_Witness ==
  /\ reply.lid # 0 /\ ~reply.error /\ reply.hits = 0
  /\ idle_workers # <<>>
  /\ DOMAIN pending # {}

\* The partitions whose indexers a query that is on its way to collector w,
\* or that w works on, refers to.
InFlight(w) ==
  {r.part : r \in requests[w]}
    \cup UNION {DOMAIN inbox[w][i].qm : i \in 1..Len(inbox[w])}

\* C14: a partition stays in the partition cache as long as a dispatched
\* query whose query map refers to its indexers has not completed.
C14_NoEvictionInFlight ==
  \A w \in Workers :
    \A p \in InFlight(w) : lru_contains(lru_partitions, p)

\* ------------------------------------------------------------------------
\* Properties of the meta index
\* ------------------------------------------------------------------------
\* C3: if the meta index omits a partition from the candidates of an
\* expression, no event ingested into that partition satisfies the
\* expression.
C3_MetaIndexSound ==
  (meta_query # NoQuery) =>
    \A ev \in ingested :
      event_satisfies(ev, meta_query) => (ev.part \in Range(meta_result))

\* C20: for every content of the meta index and all expressions a and b,
\* the lookup of a AND b returns the partitions that both lookup(a) and
\* lookup(b) return, and the lookup of a OR b those that either returns,
\* in order and once each, whether or not the visitor returns early.
C20_Distribution ==
  (meta_query.kind \in Connectives) =>
    LET a == Range(meta_index_lookup(meta_query.args[1]))
        b == Range(meta_index_lookup(meta_query.args[2]))
    IN meta_result =
         SortedSeq(IF meta_query.kind = "conjunction" THEN a \cap b
                   ELSE a \cup b)

\* On an index that is not empty: a conjunction returned early at an
\* operand without candidates after one with candidates, or a disjunction
\* returned early at an operand that yields every partition, before one
\* that yields some of them.
C20_Witness ==
  /\ partition_synopses # <<>>
  /\ meta_query.kind \in Connectives
  /\ \/ /\ meta_query.kind = "conjunction"
        /\ meta_index_lookup(meta_query.args[1]) # <<>>
        /\ meta_index_lookup(meta_query.args[2]) = <<>>
        /\ meta_query.args[1].kind = "disjunction"
     \/ /\ meta_query.kind = "disjunction"
        /\ meta_index_lookup(meta_query.args[1]) = all_partitions
        /\ meta_index_lookup(meta_query.args[2]) # all_partitions
        /\ meta_index_lookup(meta_query.args[2]) # <<>>

\* The partitions that were passed to meta_index::add.
AddedPartitions == {ev.part : ev \in ingested}

\* C21: whatever the expression, the result of meta_index::lookup is in
\* strictly ascending order, so that no partition is in it twice, and
\* holds only partitions that were passed to meta_index::add.
C21_SortedUnique ==
  (meta_query # NoQuery) =>
    /\ \A i \in 1..(Len(meta_result) - 1) : meta_result[i] < meta_result[i + 1]
    /\ Range(meta_result) \subseteq AddedPartitions

\* A predicate was looked up that two synopses of one partition answer
\* with yes, and the partition is in the result.
C21_Witness ==
  /\ meta_query # NoQuery
  /\ meta_query.kind = "predicate"
  /\ meta_result # <<>>
  /\ \E part \in DOMAIN partition_synopses :
       Cardinality({x \in matching_fields(part, meta_query.lhs) :
                      synopsis_lookup(partition_synopses[part][x[1]][x[2]],
                                      meta_query.op, meta_query.rhs)}) >= 2

\* The timestamps of the events of a partition.
Timestamps(part) ==
  {ev.row[i] : <<ev, i>> \in
     {x \in ingested \X (1..2) :
        /\ x[1].part = part
        /\ x[2] <= Len(x[1].layout)
        /\ x[1].layout[x[2]].type = "timestamp"}}

\* C22: the candidates of time >= lo && time <= hi, lo <= hi, are among
\* the partitions with timestamps exactly those whose span of timestamps
\* [min, max] meets [lo, hi]; a partition whose timestamps are all below
\* lo or all above hi is not a candidate.
C22_TimePruning ==
  \A lo \in Values : \A hi \in Values :
    (lo <= hi /\ meta_query = TimeRange(lo, hi)) =>
      \A part \in AddedPartitions :
        Timestamps(part) # {} =>
          (part \in Range(meta_result) <=>
             /\ \E v \in Timestamps(part) : v <= hi
             /\ \E v \in Timestamps(part) : v >= lo)

\* A time range was looked up on an index of two partitions with
\* timestamps: one is a candidate, the other is pruned.
C22_Witness ==
  /\ meta_query \in TimeRanges
  /\ meta_query.args[1].rhs.val <= meta_query.args[2].rhs.val
  /\ Len(meta_result) = 1
  /\ Cardinality({part \in AddedPartitions : Timestamps(part) # {}}) = 2

\* ------------------------------------------------------------------------
\* Specification of the segment manager
\* ------------------------------------------------------------------------
InitManager ==
  /\ InitSched
  /\ taste_partitions = 0
  /\ in_mem_partitions = 1
  /\ mailbox = <<WorkerMsg(1)>>
  /\ InitMeta
  /\ InitVI
  /\ vi_kind = "count"
  /\ InitSeg
  /\ max_bytes_ = 0
  /\ InitPart
  /\ max_partition_size = 1
  /\ InitMgr
  /\ InitBuilder

NextMgr ==
  /\ \/ \E id \in SegmentIds : MgrSendStore(id)
     \/ \E id \in SegmentIds : MgrSendRetrieve(id)
     \/ MgrHandle
  /\ UNCHANGED <<schedVars, metaVars, viVars, segVars, partVars,
                 builderVars>>

SpecMgr == InitManager /\ [][NextMgr]_vars

\* The construction of the manager on an existing directory.
InitScanner ==
  /\ InitSched
  /\ taste_partitions = 0
  /\ in_mem_partitions = 1
  /\ mailbox = <<WorkerMsg(1)>>
  /\ InitMeta
  /\ InitVI
  /\ vi_kind = "count"
  /\ InitSeg
  /\ max_bytes_ = 0
  /\ InitPart
  /\ max_partition_size = 1
  /\ InitScan
  /\ InitBuilder

NextScan ==
  /\ ScanStep
  /\ UNCHANGED <<schedVars, metaVars, viVars, segVars, partVars,
                 builderVars>>

SpecScan == InitScanner /\ [][NextScan]_vars

\* The constructor goes on while it can.
FairScan == SpecScan /\ WF_vars(NextScan)

\* ------------------------------------------------------------------------
\* Specification of the default table slice builder
\* ------------------------------------------------------------------------
InitTableSliceBuilder ==
  /\ InitSched
  /\ taste_partitions = 0
  /\ in_mem_partitions = 1
  /\ mailbox = <<WorkerMsg(1)>>
  /\ InitMeta
  /\ InitVI
  /\ vi_kind = "count"
  /\ InitSeg
  /\ max_bytes_ = 0
  /\ InitPart
  /\ max_partition_size = 1
  /\ InitMgr
  /\ mgr_capacity = 1
  /\ InitBuilder

NextBuilder ==
  /\ \/ \E x \in BuilderData : BuilderAppend(x)
     \/ BuilderFinish
  /\ UNCHANGED <<schedVars, metaVars, viVars, segVars, partVars, mgrVars>>

SpecBuilder == InitTableSliceBuilder /\ [][NextBuilder]_vars

\* ------------------------------------------------------------------------
\* Properties of the value index
\* ------------------------------------------------------------------------
\* C4: the result of a lookup with a non-nil operand contains only
\* positions that were appended with a non-nil value: never a position
\* that holds nil, never a position that was not appended.
C4_NilFiltering ==
  (vi_query.kind = "lookup" /\ vi_query.x.kind # "nil" /\ vi_result.ok) =>
    \A i \in 1..Len(vi_result.bits) :
      vi_result.bits[i] =>
        /\ (i - 1) \in DOMAIN vi_appended
        /\ vi_appended[i - 1].kind # "nil"

\* A lookup ran on an index that holds a nil, a gap and a value after
\* them, and returned a position.
C4_Witness ==
  /\ vi_query.kind = "lookup"
  /\ vi_query.x.kind # "nil"
  /\ vi_result.ok
  /\ \E p \in DOMAIN vi_appended : vi_appended[p].kind = "nil"
  /\ \E p \in 0..(Len(mask_) - 1) : p \notin DOMAIN vi_appended
  /\ \E i \in 1..Len(vi_result.bits) : vi_result.bits[i]
  /\ \E i \in 1..Len(bmi_) : bmi_[i].kind = "skip"

\* The positions a step appends.
NewPositions == (DOMAIN vi_appended') \ (DOMAIN vi_appended)

\* C15: offset() never decreases over a step of the index, whether an
\* append succeeds or fails; a successful append, also of nil, appends one
\* position pos and leaves offset() = pos + 1; append(x) without position
\* appends at the offset() it finds.
C15_OffsetMonotone ==
  [][/\ Len(mask_') >= offset
     /\ (vi_query'.kind = "append" /\ vi_result'.ok) =>
          \E pos \in NewPositions :
            /\ NewPositions = {pos}
            /\ Len(mask_') = pos + 1
     /\ \A x \in ViewData :
          (value_index_append_end(x) /\ vi_result'.ok) =>
            /\ NewPositions = {offset}
            /\ vi_appended'[offset] = x
            /\ Len(mask_') = offset + 1]_vars

\* A nil was appended past a gap, and offset() is one past its position.
C15_Witness ==
  /\ vi_query.kind = "append"
  /\ vi_query.x = NilData
  /\ vi_result.ok
  /\ offset >= 2
  /\ (offset - 1) \in DOMAIN vi_appended
  /\ vi_appended[offset - 1] = NilData
  /\ (offset - 2) \notin DOMAIN vi_appended

DenseValues ==
  /\ DOMAIN vi_appended = 0..(offset - 1)
  /\ \A p \in DOMAIN vi_appended : vi_appended[p].kind = vi_kind

\* C17: when an index of any kind holds a sequence xs of non-nil values of
\* its type at the positions 0..|xs|-1, every result lookup(==, xs[i]) can
\* have is a bitmap that contains position i, and so does the result of
\* the lookup that has just run.
C17_RoundTrip ==
  DenseValues =>
    /\ \A i \in DOMAIN vi_appended :
         \A r \in lookup("==", vi_appended[i]) :
           /\ r.ok
           /\ Len(r.bits) > i
           /\ r.bits[i + 1]
    /\ (vi_query.kind = "lookup" /\ vi_query.op = "==") =>
         \A i \in DOMAIN vi_appended :
           vi_appended[i] = vi_query.x =>
             vi_result.ok /\ Len(vi_result.bits) > i /\ vi_result.bits[i + 1]

\* A string index holds a string longer than max_length_ among its
\* values, and the lookup of that string has returned its position.
C17_Witness ==
  /\ DenseValues
  /\ vi_kind = "string"
  /\ offset >= 2
  /\ vi_query.kind = "lookup"
  /\ vi_query.op = "=="
  /\ Len(StringTable[vi_query.x.val + 1]) > MaxLength
  /\ \E i \in DOMAIN vi_appended :
       /\ vi_appended[i] = vi_query.x
       /\ vi_result.bits[i + 1]

\* The positions a bitmap holds.
PositionsOf(bits) == {i - 1 : i \in {j \in 1..Len(bits) : bits[j]}}

NilPositions == {p \in DOMAIN vi_appended : vi_appended[p].kind = "nil"}

\* The last call was lookup(op, nil).
NilLookup(op) ==
  /\ vi_query.kind = "lookup"
  /\ vi_query.x = NilData
  /\ vi_query.op = op

\* C18: on an index whose positions 0..offset()-1 were all appended, with
\* nil or with a value in any order, lookup(==, nil) returns exactly the
\* positions appended with nil and lookup(!=, nil) exactly those appended
\* with a value.
C18_NilLookup ==
  (DOMAIN vi_appended = 0..(offset - 1)) =>
    /\ NilLookup("==") =>
         vi_result.ok /\ PositionsOf(vi_result.bits) = NilPositions
    /\ NilLookup("!=") =>
         /\ vi_result.ok
         /\ PositionsOf(vi_result.bits) = (DOMAIN vi_appended) \ NilPositions

\* The half of C18 about lookup(==, nil).
C18_NilEqual ==
  (DOMAIN vi_appended = 0..(offset - 1) /\ NilLookup("==")) =>
    vi_result.ok /\ PositionsOf(vi_result.bits) = NilPositions

\* The positions below offset() that the appends skipped.
SkippedPositions == (0..(offset - 1)) \ (DOMAIN vi_appended)

\* C19: the positions that appends past offset() skipped are nil: they are
\* in the result of lookup(==, nil) and in the result of no lookup with a
\* non-nil operand.
C19_SkippedAreNil ==
  (vi_query.kind = "lookup" /\ vi_result.ok) =>
    /\ NilLookup("==") => SkippedPositions \subseteq PositionsOf(vi_result.bits)
    /\ vi_query.x.kind # "nil" =>
         SkippedPositions \cap PositionsOf(vi_result.bits) = {}

\* ------------------------------------------------------------------------
\* Properties of the segment
\* ------------------------------------------------------------------------
\* C5: for every base, 0 included, load(id) of an id in [base, base + n)
\* returns the event at position id - base of the segment, carrying id, and
\* load returns nothing only for ids outside that range.
C5_RoundTrip ==
  (seg_last.op = "load") =>
    LET id == seg_last.arg
    IN IF base_ <= id /\ id < base_ + n_
         THEN /\ seg_last.ret.found
              /\ seg_last.ret.ev = Flat(chunks_)[id - base_ + 1]
              /\ seg_last.ret.id = id
         ELSE ~seg_last.ret.found

\* The round trip for the segments whose base is not 0.
C5_RoundTripPositiveBase == (base_ # 0) => C5_RoundTrip

\* The sum of the compressed sizes of a sequence of chunks.
RECURSIVE SumBytes(_)
SumBytes(cs) ==
  IF cs = <<>> THEN 0 ELSE compressed_bytes(Head(cs)) + SumBytes(Tail(cs))

\* C23: events() is the number of elements of the chunks and bytes() the
\* sum of their compressed sizes, never above a positive max_bytes; and
\* append(c) returns false and changes none of the three exactly when
\* max_bytes > 0 and bytes() + c.compressed_bytes() > max_bytes, and adds
\* the chunk otherwise.
C23_Append ==
  /\ [](/\ n_ = Len(Flat(chunks_))
        /\ occupied_bytes_ = SumBytes(chunks_)
        /\ max_bytes_ > 0 => occupied_bytes_ <= max_bytes_)
  /\ [][seg_last'.op = "append" =>
          LET c == seg_last'.arg
              full == /\ max_bytes_ > 0
                      /\ occupied_bytes_ + compressed_bytes(c) > max_bytes_
          IN /\ seg_last'.ret.found = ~full
             /\ full => UNCHANGED <<n_, occupied_bytes_, chunks_>>
             /\ ~full =>
                  /\ n_' = n_ + Len(c)
                  /\ occupied_bytes_' = occupied_bytes_ + compressed_bytes(c)
                  /\ chunks_' = Append(chunks_, c)]_vars

\* A segment with a positive max_bytes that holds a chunk has rejected
\* another one.
C23_Witness ==
  /\ seg_last.op = "append"
  /\ ~seg_last.ret.found
  /\ chunks_ # <<>>
  /\ max_bytes_ > 0

\* C25: a stream that starts with the magic and a version that is not
\* above segment::version and continues like serialize(s) deserializes to
\* a segment with the id, compression, base, event count, byte count and
\* chunks of s, whose serialization is serialize(s); a stream with another
\* magic or a higher version is rejected.
C25_SerializeRoundTrip ==
  (seg_last.op = "deserialize") =>
    LET x == seg_last.arg.seg
        y == seg_last.ret.ev
    IN IF seg_last.arg.magic = 1447121748 /\ seg_last.arg.version <= version
         THEN /\ seg_last.ret.found
              /\ y.id_ = x.id_
              /\ y.compression_ = x.compression_
              /\ y.base_ = x.base_
              /\ y.n_ = x.n_
              /\ y.occupied_bytes_ = x.occupied_bytes_
              /\ y.chunks_ = x.chunks_
              /\ serialize(y) = serialize(x)
         ELSE ~seg_last.ret.found

\* A segment with a positive base and two chunks made the round trip.
C25_Witness ==
  /\ seg_last.op = "deserialize"
  /\ seg_last.ret.found
  /\ seg_last.arg.version = version
  /\ seg_last.arg.seg.base_ > 0
  /\ Len(seg_last.arg.seg.chunks_) >= 2
  /\ seg_last.ret.ev.chunks_ = chunks_

\* C24: when one of the three writes of an event fails, the name, the
\* timestamp or the vector of values, store and write return false for
\* it, so that segment::store returns the number of events before it.
C24_StoreAllThree ==
  (seg_last.op = "store_failing") => seg_last.ret.id = seg_last.arg.at - 1

\* The part of C24 about the first two writes.
C24_NameOrTimestamp ==
  (seg_last.op = "store_failing" /\ seg_last.arg.what # "values") =>
    seg_last.ret.id = seg_last.arg.at - 1

\* ------------------------------------------------------------------------
\* Properties of segment::store
\* ------------------------------------------------------------------------
\* C40: the value k that segment::store(v, max_events_per_chunk) returns is
\* the number of events that are in the segment because of the call:
\* events() and the events readable from the chunks have grown by exactly
\* k, for every max_bytes, also when a chunk is rejected because the
\* segment is full.
C40_StoreCount ==
  [][seg_last'.op = "store" =>
       /\ n_' = n_ + seg_last'.arg
       /\ Len(Flat(chunks_')) = Len(Flat(chunks_)) + seg_last'.arg
       /\ SubSeq(Flat(chunks_'), 1, Len(Flat(chunks_))) = Flat(chunks_)]_vars

\* On a segment without a limit of bytes store(v, max_events_per_chunk)
\* returns the size of v, and the segment then holds the events of v after
\* those it held, for every v and max_events_per_chunk.
C40_StoreUnlimited ==
  max_bytes_ = 0 =>
    \A v \in SeqsOf(Events, 1, MaxStore) :
      \A max_events_per_chunk \in 0..MaxChunkEvents :
        LET r == segment_store(v, max_events_per_chunk)
        IN /\ r.k = Len(v)
           /\ r.st.n = n_ + r.k
           /\ Flat(r.st.chunks) = Flat(chunks_) \o v

\* ------------------------------------------------------------------------
\* Properties of the partitions
\* ------------------------------------------------------------------------
\* The partitions that were sealed: all but the active one.
Sealed == Created \ {active}

\* C11: a partition is recorded as unpersisted when it is sealed, with a
\* counter equal to the number of its indexers; every persist response of
\* one of its indexers decrements the counter by one; the partition leaves
\* the unpersisted list exactly in the step in which its counter reaches
\* zero, when all of its indexers have responded.
C11_PersistCounter ==
  [][/\ \A p \in Sealed' \ Sealed :
          /\ p \in Unpersisted'
          /\ unpersisted'[unpersisted_find(p)'].count = part_indexers[p]
     /\ \A p \in Unpersisted :
          LET c == unpersisted[unpersisted_find(p)].count
              acks == persist_acked'[p] - persist_acked[p]
          IN /\ acks \in {0, 1}
             /\ IF p \in Unpersisted'
                  THEN /\ unpersisted'[unpersisted_find(p)'].count = c - acks
                       /\ c - acks > 0 \/ c = 0
                  ELSE /\ acks = 1
                       /\ c = 1
                       /\ persist_acked'[p] = part_indexers[p]
     /\ \A p \in Unpersisted' : p \in Sealed']_vars

\* A partition with two indexers was sealed and left the unpersisted list.
C11_Witness ==
  \E p \in Sealed :
    /\ part_indexers[p] = 2
    /\ persist_acked[p] = 2
    /\ p \notin Unpersisted

\* C12: every sealed partition eventually leaves the unpersisted list,
\* whatever the number of its indexers.
C12_EventuallyPersisted ==
  \A p \in 1..MaxIngest : (p \in Unpersisted) ~> (p \notin Unpersisted)

\* The same for the partitions that have an indexer.
C12_WithIndexers ==
  \A p \in 1..MaxIngest :
    (p \in Unpersisted /\ part_indexers[p] > 0) ~> (p \notin Unpersisted)

NothingDispatched ==
  UNCHANGED <<idle_workers, has_worker, pending, next_qid, inbox, job,
              open_requests, requests, lru_partitions, cancelled>>

\* C33: a lookup from an anonymous sender is answered with
\* invalid_argument, and a continue(query_id, n > 0) for a query_id that is
\* not in pending gets no answer; neither dispatches work, takes an idle
\* worker or changes pending.
C33_InvalidRequests ==
  [][/\ (HeadHandled /\ Head(mailbox).type = "lookup"
          /\ Head(mailbox).client = Anon) =>
          /\ reply' = [lid |-> Head(mailbox).lid, error |-> TRUE]
          /\ NothingDispatched
     /\ (HeadHandled /\ Head(mailbox).type = "continue"
          /\ Head(mailbox).num_partitions > 0
          /\ Head(mailbox).query_id \notin DOMAIN pending) =>
          /\ reply' = reply
          /\ NothingDispatched]_vars

\* An anonymous lookup was answered with the error while a worker was
\* idle, and a continue for a query that is not pending any more is the
\* next message.
C33_Witness ==
  /\ reply.lid # 0 /\ reply.error
  /\ idle_workers # <<>> /\ has_worker
  /\ mailbox # <<>>
  /\ Head(mailbox).type = "continue"
  /\ Head(mailbox).num_partitions > 0
  /\ Head(mailbox).query_id \notin DOMAIN pending

\* ------------------------------------------------------------------------
\* Properties of the scheduling of the candidates
\* ------------------------------------------------------------------------
\* The candidates of query q that were sent to a worker.
DispatchedOf(q) == {p \in DOMAIN dispatched[q].count : dispatched[q].count[p] > 0}

\* The candidates of query q that wait in pending.
PendingOf(q) == IF q \in DOMAIN pending THEN pending[q] ELSE <<>>

\* The client dropped candidates of query q with continue(q, 0).
Dropped(q) == \E c \in cancelled : c.query_id = q /\ c.dropped > 0

\* C36: every candidate of a query is dispatched to a worker exactly once:
\* no candidate is dispatched twice, the candidates dispatched so far and
\* those in pending[query_id] are disjoint and together are the candidates of
\* the query, and once the entry is drained all of them were dispatched.  A
\* lookup that gets no query id dispatches all its candidates at once.
C36_ExactlyOnce ==
  /\ \A q \in DOMAIN dispatched :
       /\ \A p \in dispatched[q].candidates : dispatched[q].count[p] <= 1
       /\ \A i, j \in DOMAIN PendingOf(q) :
            PendingOf(q)[i] = PendingOf(q)[j] => i = j
       /\ DispatchedOf(q) \cap Range(PendingOf(q)) = {}
       /\ ~Dropped(q) =>
            DispatchedOf(q) \cup Range(PendingOf(q)) = dispatched[q].candidates
  /\ \A q \in DOMAIN pending : q \in DOMAIN dispatched
  /\ \A w \in Workers :
       (job[w].kind = "lookup" /\ job[w].query_id = Nil) =>
         DOMAIN job[w].qm = job[w].candidates

\* A query with two candidates was drained by continue requests after a
\* taste that scheduled less than both.
C36_Witness ==
  \E q \in DOMAIN dispatched :
    /\ q \notin DOMAIN pending
    /\ ~Dropped(q)
    /\ Cardinality(dispatched[q].candidates) = 2
    /\ DispatchedOf(q) = dispatched[q].candidates
    /\ \E w \in Workers : job[w].kind = "continue" /\ job[w].query_id = q

\* ------------------------------------------------------------------------
\* Properties of the idle workers
\* ------------------------------------------------------------------------
\* C37: the scheduler never takes a worker from an empty idle_workers list:
\* its has_worker behavior, the only one that handles lookup and continue,
\* is active only while idle_workers is non-empty, and every step that
\* dispatches work to a collector finds idle_workers non-empty and removes
\* exactly one worker from it, the one the work is sent to.
C37_WorkerTaken ==
  /\ [](has_worker => idle_workers # <<>>)
  /\ [][\A w \in Workers : DispatchedTo(w) =>
          /\ HeadHandled
          /\ idle_workers # <<>>
          /\ w = NextWorker
          /\ idle_workers' = Front(idle_workers)
          /\ \A v \in Workers \ {w} : inbox'[v] = inbox[v]]_vars

\* The last idle worker was taken by a continue request while a lookup
\* waits in the mailbox.
C37_Witness ==
  /\ idle_workers = <<>> /\ ~has_worker
  /\ \E w \in Workers : job[w].kind = "continue" /\ inbox[w] # <<>>
  /\ \E i \in DOMAIN mailbox : mailbox[i].type = "lookup"

\* The collectors that have a query: in their mailbox or in progress.
Busy == {w \in Workers : inbox[w] # <<>> \/ DOMAIN open_requests[w] # {}}

\* Collector w takes a query from its mailbox in this step.
QueryHandled(w) == inbox[w] # <<>> /\ Len(inbox'[w]) = Len(inbox[w]) - 1

\* C38: a worker appears in idle_workers at most once and only while it has
\* no query and no open requests; a collector that starts a query has no
\* open requests (the assertion of its query handler holds); and the idle
\* and the busy workers together are never more than the workers index()
\* spawned.
C38_IdleWorkers ==
  /\ [](/\ \A i, j \in DOMAIN idle_workers :
             idle_workers[i] = idle_workers[j] => i = j
        /\ \A w \in Range(idle_workers) :
             /\ inbox[w] = <<>>
             /\ DOMAIN open_requests[w] = {}
             /\ requests[w] = {}
        /\ Len(idle_workers) + Cardinality(Busy) <= Cardinality(Spawned))
  /\ [][/\ \A w \in Workers :
             QueryHandled(w) => DOMAIN open_requests[w] = {}
        /\ Spawned' = Spawned]_vars

\* One collector registered again after the results of its query while
\* the other one still waits for its INDEXER actors.
C38_Witness ==
  \E w, v \in Workers :
    /\ w \in Range(idle_workers)
    /\ job[w] # NoJob /\ sent[w] # EmptyBag
    /\ DOMAIN open_requests[v] # {}

\* ------------------------------------------------------------------------
\* Properties of the string index
\* ------------------------------------------------------------------------
\* The string s occurs in the string t.
contains(t, s) ==
  \E i \in 0..(Len(t) - Len(s)) : SubSeq(t, i + 1, i + Len(s)) = s

\* A string index that holds strings no longer than max_length_, nils and
\* gaps.
ShortStrings ==
  /\ vi_kind = "string"
  /\ \A p \in DOMAIN vi_appended :
       vi_appended[p].kind = "string" =>
         Len(StringTable[vi_appended[p].val + 1]) <= MaxLength

\* The positions that hold a string with the property Holds.
StringPositions(Holds(_)) ==
  {p \in DOMAIN vi_appended :
     /\ vi_appended[p].kind = "string"
     /\ Holds(StringTable[vi_appended[p].val + 1])}

\* Some result lookup(op, x) can have holds exactly the positions ps.
CanReturn(op, x, ps) ==
  \E r \in lookup(op, x) : r.ok /\ PositionsOf(r.bits) = ps

\* The lookups of the strings xs are exact when the bitmap indexes of the
\* characters yield no bit at the positions they skipped.
StringLookupExact(xs) ==
  ShortStrings =>
    \A x \in xs :
      LET s == StringTable[x.val + 1]
      IN /\ CanReturn("==", x, StringPositions(LAMBDA t : t = s))
         /\ s # <<>> =>
              CanReturn("ni", x, StringPositions(LAMBDA t : contains(t, s)))

\* C28: in a string index that holds strings no longer than max_length,
\* lookup(=, s) returns exactly the positions whose string equals s, and
\* lookup(ni, s) for a non-empty s exactly the positions whose string
\* contains s, for every string s.
C28_StringLookup == StringLookupExact(DataOf("string", StringTable))

\* The same for the strings s that are no longer than max_length.
C28_ShortOperands ==
  StringLookupExact({x \in DataOf("string", StringTable) :
                       Len(StringTable[x.val + 1]) <= MaxLength})

\* ------------------------------------------------------------------------
\* Properties of the address index
\* ------------------------------------------------------------------------
\* Bit k of a 128-bit address, counted from 1 at the most significant bit.
address_bit(a, k) == (a[((k - 1) \div 8) + 1] \div (2 ^ (7 - ((k - 1) % 8)))) % 2

\* The address a lies in the subnet sn: the bits of the prefix agree.
in_subnet(a, sn) ==
  LET length == IF embeds_v4(sn.network) THEN sn.length + 96 ELSE sn.length
  IN \A k \in 1..length : address_bit(a, k) = address_bit(sn.network, k)

\* The positions that hold an address with the property Holds.
AddressPositions(Holds(_)) ==
  {p \in DOMAIN vi_appended :
     /\ vi_appended[p].kind = "address"
     /\ Holds(address_bytes(vi_appended[p]))}

\* The lookups of an address index with the addresses and the subnets sns
\* are exact when the coder of a byte yields the bits of the byte.
AddressLookupExact(sns) ==
  (vi_kind = "address" /\ AddressPositions(LAMBDA a : TRUE) # {}) =>
    /\ \A x \in DataOf("address", AddressTable) :
         /\ CanReturn("==", x,
                      AddressPositions(LAMBDA a : a = address_bytes(x)))
         /\ CanReturn("!=", x,
                      AddressPositions(LAMBDA a : a # address_bytes(x)))
    /\ \A x \in sns :
         CanReturn("in", x, AddressPositions(LAMBDA a : in_subnet(a, subnet(x))))

\* C29: in an address index that holds v4 and v6 addresses, lookup(=, a)
\* returns exactly the positions that hold a, lookup(!=, a) the other
\* positions that hold an address, and lookup(in, S) exactly the positions
\* whose address lies in the subnet S, for every prefix length, /0, /32
\* and /128 included.
C29_AddressLookup == AddressLookupExact(DataOf("subnet", SubnetTable))

\* The same for the subnets with a prefix length other than 0.
C29_NonZeroPrefix ==
  AddressLookupExact({x \in DataOf("subnet", SubnetTable) :
                        subnet(x).length # 0})

\* ------------------------------------------------------------------------
\* Properties of the port index
\* ------------------------------------------------------------------------
\* The port q satisfies op against the port p of a lookup: the number
\* does, and the protocol is that of p unless p has none.
port_satisfies(q, op, p) ==
  /\ CASE op = "==" -> q.number = p.number
       [] op = "!=" -> q.number # p.number
       [] op = "<" -> q.number < p.number
       [] op = "<=" -> q.number <= p.number
       [] op = ">" -> q.number > p.number
       [] op = ">=" -> q.number >= p.number
  /\ p.type = "unknown" \/ q.type = p.type

\* The positions that hold a port that satisfies op against the port of x.
PortPositions(op, x) ==
  {i \in DOMAIN vi_appended :
     /\ vi_appended[i].kind = "port"
     /\ port_satisfies(port(vi_appended[i]), op, port(x))}

\* C30: for a port index and each of the six operators, every result
\* lookup(op, p/proto) can have holds exactly the positions whose port
\* number satisfies op against p and, unless proto is unknown, whose
\* protocol is proto; so does the result of the lookup that has just run.
C30_PortLookup ==
  vi_kind = "port" =>
    /\ \A op \in RelationalOperators : \A x \in DataOf("port", PortTable) :
         \A r \in lookup(op, x) :
           r.ok /\ PositionsOf(r.bits) = PortPositions(op, x)
    /\ (vi_query.kind = "lookup" /\ vi_query.x.kind = "port") =>
         /\ vi_result.ok
         /\ PositionsOf(vi_result.bits) = PortPositions(vi_query.op, vi_query.x)

\* The index holds 80/tcp and 80/udp, and a lookup of the ports above
\* 53/tcp has returned the position of 80/tcp alone.
C30_Witness ==
  /\ vi_kind = "port"
  /\ vi_query = [kind |-> "lookup", op |-> ">", x |-> [kind |-> "port", val |-> 3]]
  /\ \E i, j \in DOMAIN vi_appended :
       /\ vi_appended[i] = [kind |-> "port", val |-> 0]
       /\ vi_appended[j] = [kind |-> "port", val |-> 1]
       /\ PositionsOf(vi_result.bits) = {i}

\* ------------------------------------------------------------------------
\* Properties of the negated operators
\* ------------------------------------------------------------------------
\* The positions appended with a value that is not nil.
ValuePositions == DOMAIN vi_appended \ NilPositions

\* The operands of the type of the index.
TypedOperands == {x \in LookupData : x.kind = vi_kind}

\* lookup(!=, x) is the complement of lookup(=, x) among the positions
\* with a value.  The two lookups read the same bitmaps: to every result
\* the one can have corresponds a result of the other.
Complements(x) ==
  \A r \in lookup("==", x) : \E n \in lookup("!=", x) :
    /\ r.ok /\ n.ok
    /\ PositionsOf(r.bits) \cap PositionsOf(n.bits) = {}
    /\ PositionsOf(r.bits) \cup PositionsOf(n.bits) = ValuePositions

\* C39: negated operators are complements: for every value index, every
\* content and every operand x of its type, lookup(!=, x) is disjoint from
\* lookup(=, x) and the union of the two is the set of positions appended
\* with a non-nil value.
C39_Complement ==
  (vi_init /\ ValuePositions # {}) => \A x \in TypedOperands : Complements(x)

\* The same holds for the indexes of counts, strings, addresses and
\* subnets, and for a port index when the operand has no protocol.
C39_ComplementButPort ==
  (vi_init /\ ValuePositions # {}) =>
    \A x \in TypedOperands :
      (vi_kind = "port" => port(x).type = "unknown") => Complements(x)

\* ------------------------------------------------------------------------
\* Properties of the taste and continue scheduling order
\* ------------------------------------------------------------------------
\* std::stable_partition(candidates, [cached]): the cached candidates in
\* their original order, then the other candidates in their original order.
stable_partition(cands, cache) ==
  LET cached(p) == lru_contains(cache, p)
      uncached(p) == ~lru_contains(cache, p)
  IN SelectSeq(cands, cached) \o SelectSeq(cands, uncached)

\* The INDEX actor schedules only a part of the candidates cands.
PartlyScheduled(cands) ==
  \/ /\ HeadHandled
     /\ Head(mailbox).type = "lookup"
     /\ reply' # reply /\ ~reply'.error
     /\ reply'.query_id # Nil
     /\ cands = SortedSeq(job'[NextWorker].candidates)
  \/ /\ HeadHandled
     /\ Head(mailbox).type = "continue"
     /\ Head(mailbox).num_partitions > 0
     /\ Head(mailbox).client # Anon
     /\ Head(mailbox).query_id \in DOMAIN pending
     /\ Head(mailbox).num_partitions < Len(pending[Head(mailbox).query_id])
     /\ cands = pending[Head(mailbox).query_id]

\* The candidate lists a partial scheduling can start from.
CandidateLists == UNION {Arrangements(SortedSeq(S)) : S \in SUBSET Partitions}

\* When only a part of the candidates is scheduled, no candidate outside
\* the cache is scheduled while a cached candidate is left for later.
C27_PreferResident ==
  [][\A cands \in CandidateLists :
       PartlyScheduled(cands) =>
         LET scheduled == DOMAIN Last(inbox'[NextWorker]).qm
         IN \A p \in scheduled, q \in Range(cands) \ scheduled :
              ~(~lru_contains(lru_partitions, p)
                /\ lru_contains(lru_partitions, q))]_vars

\* C27: when only a part of a query's candidates is scheduled (taste or
\* continue), the scheduled candidates are the first k of the candidate
\* list after a stable partition by residency in the partition cache, and
\* the candidates left for later are the rest of that list, in its order.
C27_StablePartition ==
  [][\A cands \in CandidateLists :
       PartlyScheduled(cands) =>
         LET scheduled == DOMAIN Last(inbox'[NextWorker]).qm
             k == Cardinality(scheduled)
             stable == stable_partition(cands, lru_partitions)
             qid == job'[NextWorker].query_id
         IN /\ scheduled = Range(SubSeq(stable, 1, k))
            /\ pending'[qid] = SubSeq(stable, k + 1, Len(stable))]_vars

\* ------------------------------------------------------------------------
\* Properties of the segment reader
\* ------------------------------------------------------------------------
\* The ids of the segment.
SegmentRange == base_..(base_ + n_ - 1)

\* The events of the segment from the id on, with their ids.
EventsFrom(id) ==
  [i \in 1..(base_ + n_ - id) |->
     [ev |-> Flat(chunks_)[id - base_ + i], id |-> id + i - 1]]

\* The seeks of the last operation are as they should be: a seek to an id
\* outside the segment returns false; when every id is in the segment,
\* every seek returns true and the reads after the last seek return the
\* events from its id to the end of the segment.
SeeksExact ==
  LET ids == seg_last.arg
      ret == seg_last.ret
  IN /\ \A i \in 1..Len(ids) : ids[i] \notin SegmentRange => ~ret.oks[i]
     /\ (\A i \in 1..Len(ids) : ids[i] \in SegmentRange) =>
          /\ \A i \in 1..Len(ids) : ret.oks[i]
          /\ ret.reads = EventsFrom(ids[Len(ids)])

\* The seeks are as they should be for every base, 0 included.
C31_Seek == (seg_last.op = "seek") => SeeksExact

\* C31 for the segments whose base is not 0, where seek does not give up
\* at once: each seek to an id of the segment returns true and the reads
\* after the last seek return the events from its id to the end of the
\* segment; a seek to an id outside the segment returns false.
C31_SeekPositiveBase == (seg_last.op = "seek" /\ base_ # 0) => SeeksExact

\* The same for the segments whose base is not 0 and seeks that never go
\* back.
C31_SeekForward ==
  (/\ seg_last.op = "seek" /\ base_ # 0
   /\ \A i \in 1..(Len(seg_last.arg) - 1) :
        seg_last.arg[i] <= seg_last.arg[i + 1]) => SeeksExact

\* ------------------------------------------------------------------------
\* Properties of the partition factory
\* ------------------------------------------------------------------------
\* The partitions the index holds in memory on its own.
InMemory == (IF active # Nil THEN {active} ELSE {}) \cup Unpersisted

\* C32: while a partition is the active one or in the unpersisted list,
\* resolving its id through the partition cache never makes it from its
\* files: no step loads such a partition, and the partition resident in
\* the cache for such an id is never one that was loaded; only ids that
\* are neither active nor unpersisted are loaded.
C32_NoLoadInMemory ==
  /\ [](lru_loaded \cap InMemory = {})
  /\ [][(lru_loaded' \ lru_loaded) \cap InMemory = {}]_vars

\* The id of an unpersisted partition was resolved, and the partition
\* before it is neither active nor unpersisted any more.
C32_Witness ==
  /\ lru_partitions # <<>>
  /\ Last(lru_partitions) \in Unpersisted
  /\ Last(lru_partitions) > 1
  /\ Last(lru_partitions) - 1 \notin InMemory

\* ------------------------------------------------------------------------
\* Properties of the scan of the segment manager
\* ------------------------------------------------------------------------
\* The files of a directory and of its subdirectories.
FilesOf(tree) ==
  {tree[Root][i] :
     i \in {j \in 1..Len(tree[Root]) : ~is_directory(tree[Root][j])}}
    \cup (IF \E i \in 1..Len(tree[Root]) : is_directory(tree[Root][i])
          THEN Range(tree[SubDir]) ELSE {})

\* The scan has returned with every file of the tree in segment_files_.
ScanDone ==
  /\ scan_status = "done"
  /\ segment_files_ = FilesOf(dir_tree)

\* C34: the construction of the manager over an existing directory
\* terminates for every directory tree, with subdirectories too, and then
\* every segment file of the tree is in segment_files_.
C34_ScanTerminates == <>ScanDone

\* The same for the directories without a subdirectory.
C34_FlatScanTerminates ==
  (\A i \in 1..Len(dir_tree[Root]) : ~is_directory(dir_tree[Root][i]))
    => <>ScanDone

\* ------------------------------------------------------------------------
\* Properties of the default table slice builder
\* ------------------------------------------------------------------------
\* The slice that finish has to return: the completed rows, and the row
\* being filled when it has a value.
FinishedRows ==
  IF slice_.null THEN <<>>
  ELSE IF col_ # 0 THEN Append(slice_.xs_, row_) ELSE slice_.xs_

\* C35: every call of finish, in whatever state of the builder, returns a
\* slice with all completed rows plus the partially filled row with its
\* remaining columns nil, and rows() is 0 afterwards.
C35_Finish ==
  [][tsb_last'.op = "finish" /\ tsb_last'.calls # tsb_last.calls
       => /\ tsb_last'.ret = returned_slice(FinishedRows)
          /\ builder_rows' = 0]_vars

\* The same holds for the calls of finish on a builder that was appended
\* to since its construction and since the last finish.
C35_FinishAfterAppend ==
  [][tsb_last'.op = "finish" /\ tsb_last'.calls # tsb_last.calls
       /\ ~slice_.null
       => /\ tsb_last'.ret = returned_slice(FinishedRows)
          /\ \A i \in 1..Len(row_) :
               i > col_ /\ col_ # 0 => row_[i] = NilData
          /\ builder_rows' = 0]_vars

\* An append between two calls of finish: a value that does not type-check
\* leaves the row, the cursor and rows() as they are, any other value
\* advances the cursor, and rows() grows by one exactly when the value
\* fills the last column.
C35_Append ==
  [][tsb_last'.op = "append" /\ tsb_last'.calls # tsb_last.calls
       /\ ~slice_.null
       => IF tsb_last'.ret.ok
          THEN /\ col_' = (col_ + 1) % Len(builder_layout)
               /\ builder_rows' =
                    builder_rows
                      + (IF col_ + 1 = Len(builder_layout) THEN 1 ELSE 0)
          ELSE /\ row_' = row_
               /\ col_' = col_
               /\ builder_rows' = builder_rows]_vars

C35_AppendWitness ==
  /\ tsb_last.op = "append"
  /\ tsb_last.ret.ok
  /\ builder_rows = 2
  /\ col_ = 0

\* ------------------------------------------------------------------------
\* Properties of the segment manager
\* ------------------------------------------------------------------------
\* C26: every resident entry of the cache holds the segment of its key;
\* the reply to retrieve(id) is the segment with the id, the segment is
\* read from its file exactly when id is not resident, and it is resident
\* afterwards, so that further retrieves do not read it again while it
\* stays resident.
C26_Retrieve ==
  /\ [](\A i \in 1..Len(cache_) : cache_[i].seg.id_ = cache_[i].key)
  /\ [][(/\ mgr_mailbox # <<>>
         /\ mgr_mailbox' = Tail(mgr_mailbox)
         /\ Head(mgr_mailbox).op = "retrieve") =>
          LET id == Head(mgr_mailbox).id
          IN /\ mgr_last'.op = "retrieve"
             /\ mgr_last'.seg.id_ = id
             /\ mgr_last'.loaded <=> id \notin cache_keys(cache_)
             /\ id \in cache_keys(cache_')]_vars

\* A segment that had been evicted was read from its file for one
\* retrieve while another retrieve of the same id waits in the mailbox.
C26_Witness ==
  /\ mgr_last.op = "retrieve"
  /\ mgr_last.loaded
  /\ mgr_mailbox # <<>>
  /\ Head(mgr_mailbox) = [op |-> "retrieve", id |-> mgr_last.id]
  /\ Cardinality(segment_files_) > mgr_capacity

====
